---- MODULE Spec2Model ----
(***************************************************************************)
(* Tuple-tree document model of revng's Python layer: typed construction,  *)
(* path resolution, diff computation, diff validation/application and the  *)
(* YAML codec (src/python/revng/tupletree/__init__.py), driven by the      *)
(* wrappers of src/python/revng/model/v1/__init__.py.                      *)
(*                                                                         *)
(* Python objects are modelled as tagged records.  Mutable objects (struct *)
(* nodes and TypedLists) carry an object identity `oid`; Python's `==`     *)
(* ignores it, `deepcopy` renews it, and every in-place write is applied   *)
(* to all holders of the same oid, which is how aliasing is observed.      *)
(* A path string is modelled by the list path.split("/") of its parts, so  *)
(* "" is <<"">>, "/Name" is <<"", "Name">> and f"{prefix}/{key}" appends.  *)
(***************************************************************************)
EXTENDS Integers, Sequences, FiniteSets, TLC

VARIABLES TypeHints, snapshot_old, snapshot_new, change_set, result, pc, saved,
          model, last_saved_model, resume_dir,
          resolvers, work_queue, running, launcher

vars == <<TypeHints, snapshot_old, snapshot_new, change_set, result, pc, saved,
          model, last_saved_model, resume_dir,
          resolvers, work_queue, running, launcher>>

\* The state of the daemon's GraphQL layer (the coroutines of the resolvers
\* and the executor they share) and of a LocalDaemonProject starting its
\* daemon.
service_vars == <<resolvers, work_queue, running, launcher>>

\* The state of a scripting project: Project.model, Project.last_saved_model
\* and the model the backend keeps in the project's resume directory.
project_vars == <<model, last_saved_model, resume_dir>>

(***************************************************************************)
(* Bounds of the explored inputs.                                          *)
(***************************************************************************)
MaxSeqLen == 2
MaxChanges == 2

(***************************************************************************)
(* Python values.                                                          *)
(***************************************************************************)
None == [t |-> "None"]
Str(s) == [t |-> "str", s |-> s]
PyInt(n) == [t |-> "int", n |-> n]
PyBool(b) == [t |-> "bool", b |-> b]
Enum(cls, name) == [t |-> "enum", cls |-> cls, name |-> name]

\* An outcome of a call: a returned value or a raised exception.
Ret(v) == [ret |-> v]
Raise(e) == [exc |-> e]
IsExc(r) == "exc" \in DOMAIN r

Reference(ref_str, referenced_obj) == [t |-> "Reference", _ref_str |-> ref_str, referenced_obj |-> referenced_obj]

is_valid(ref) == ref._ref_str # ""

TypedList(oid, base_class, data) == [t |-> "TypedList", oid |-> oid, _base_class |-> base_class, _data |-> data]

IsNode(v) == v.t \in {"Binary", "Function", "PrimitiveType", "DefinedType"}

\* key.startswith("_"): the private attribute the scripting layer sets on
\* the nodes of a model (elem._project).
PrivateNames == {"_project"}

\* The test `v is not None` in place of bool(v).
Truthy_is_not_none(v) == v.t # "None"

\* bool(v): None, "", 0, False and an empty TypedList are falsy; struct nodes,
\* enum members and References define neither __bool__ nor __len__.
Truthy(v) ==
    CASE v.t = "None" -> FALSE
      [] v.t = "str" -> v.s # ""
      [] v.t = "int" -> v.n # 0
      [] v.t = "bool" -> v.b
      [] v.t = "TypedList" -> Len(v._data) > 0
      [] OTHER -> TRUE

\* The value with every object identity erased: what `==` and repr() see.
RECURSIVE Strip(_)
Strip(v) ==
    IF v.t = "TypedList"
    THEN [t |-> "TypedList", _base_class |-> v._base_class,
          _data |-> [i \in 1..Len(v._data) |-> Strip(v._data[i])]]
    ELSE IF IsNode(v)
    THEN [k \in DOMAIN v \ ({"oid"} \cup PrivateNames) |-> IF k = "t" THEN v[k] ELSE Strip(v[k])]
    ELSE v

\* a == b: dataclass __eq__ (same class, equal fields), TypedList.__eq__,
\* Reference.__eq__ and the builtin comparisons.
PyEq(a, b) == Strip(a) = Strip(b)

\* str(v), kept as a value: the text of a string, "None" for None, and for
\* every other value its repr, which is determined by its content.
PyStr(v) ==
    CASE v.t = "str" -> [text |-> v.s]
      [] v.t = "None" -> [text |-> "None"]
      [] v.t = "int" -> [text |-> ToString(v.n)]
      [] v.t = "bool" -> [text |-> IF v.b THEN "True" ELSE "False"]
      [] v.t = "enum" -> [text |-> v.name]
      [] v.t = "Reference" -> [text |-> IF v._ref_str = "" THEN "<Invalid Reference>" ELSE v._ref_str]
      [] v.t = "TypedList" -> [list |-> Strip(v)._data]
      [] OTHER -> [repr |-> Strip(v)]

\* copy.deepcopy(v): an equal value none of whose objects is an object of v.
RECURSIVE Retag(_, _)
Retag(v, tag) ==
    IF v.t = "TypedList"
    THEN [v EXCEPT !.oid = <<tag>> \o v.oid,
                   !._data = [i \in 1..Len(v._data) |-> Retag(v._data[i], tag)]]
    ELSE IF IsNode(v)
    THEN [k \in DOMAIN v |-> IF k = "t" THEN v[k]
                             ELSE IF k = "oid" THEN <<tag>> \o v[k]
                             ELSE Retag(v[k], tag)]
    ELSE v

\* The copy left out: the "copy" is the object itself.
alias(v, tag) == v

deepcopy(v, tag) == Retag(v, tag)

\* The identities of the mutable objects reachable from v.
RECURSIVE Oids(_)
Oids(v) ==
    IF v.t = "TypedList"
    THEN {v.oid} \cup UNION {Oids(v._data[i]) : i \in 1..Len(v._data)}
    ELSE IF IsNode(v)
    THEN {v.oid} \cup UNION {Oids(v[k]) : k \in DOMAIN v \ {"t", "oid"}}
    ELSE {}

(***************************************************************************)
(* The generated schema module (revng.model.v1._generated): the classes,   *)
(* their fields, keys and defaults, and the TypeHints registry, in the     *)
(* form the generator emits them.  Binary is the root; Functions is a      *)
(* keyed collection, ImportedLibraries a plain sequence of strings, and    *)
(* Function.Prototype an optional upcastable Type with two variants.       *)
(***************************************************************************)
ClassNames == {"Binary", "Function", "Type", "PrimitiveType", "DefinedType"}

\* dataclasses.fields(cls): the declared fields, base class first.
fields(cls) ==
    CASE cls = "Binary" -> <<"Name", "Functions", "ImportedLibraries">>
      [] cls = "Function" -> <<"Entry", "CustomName", "Prototype">>
      [] cls = "Type" -> <<"Kind", "IsConst">>
      [] cls = "PrimitiveType" -> <<"Kind", "IsConst", "Size">>
      [] cls = "DefinedType" -> <<"Kind", "IsConst", "Definition">>
      [] OTHER -> <<>>

Range(seq) == {seq[i] : i \in 1..Len(seq)}

hasattr(obj, name) == IsNode(obj) /\ name \in Range(fields(obj.t))

\* AbstractStructBase._children of a class: Kind name -> concrete class.
_children(cls) ==
    IF cls \in {"Type", "PrimitiveType", "DefinedType"}
    THEN [PrimitiveType |-> "PrimitiveType", DefinedType |-> "DefinedType"]
    ELSE <<>>

\* The members of the enum TypeKind (name = value).
TypeKind == {"Invalid", "PrimitiveType", "DefinedType"}

\* isinstance(v, cls); bool is a subclass of int.
isinstance(v, cls) ==
    CASE cls = "str" -> v.t = "str"
      [] cls = "int" -> v.t \in {"int", "bool"}
      [] cls = "bool" -> v.t = "bool"
      [] cls = "TypeKind" -> v.t = "enum"
      [] cls = "Reference" -> v.t = "Reference"
      [] cls = "Type" -> v.t \in {"PrimitiveType", "DefinedType"}
      [] OTHER -> v.t = cls

\* One entry of TypeHints[cls], as PythonGenerator.type_hint writes it.
Hint(name, type, ctor, optional, isArray, isAbstract) ==
    [name |-> name, type |-> type, ctor |-> ctor, optional |-> optional,
     isArray |-> isArray, isAbstract |-> isAbstract]

\* The registry as generated: per class its own fields, in declaration order.
GeneratedTypeHints ==
    [Binary |-> << Hint("Name", "str", "native", TRUE, FALSE, FALSE),
                   Hint("Functions", "Function", "class", TRUE, TRUE, FALSE),
                   Hint("ImportedLibraries", "str", "native", TRUE, TRUE, FALSE) >>,
     Function |-> << Hint("Entry", "str", "native", FALSE, FALSE, FALSE),
                     Hint("CustomName", "str", "native", TRUE, FALSE, FALSE),
                     Hint("Prototype", "Type", "parse", TRUE, FALSE, TRUE) >>,
     Type |-> << Hint("Kind", "str", "enum", FALSE, FALSE, FALSE),
                 Hint("IsConst", "bool", "native", TRUE, FALSE, FALSE) >>,
     PrimitiveType |-> << Hint("Size", "int", "native", TRUE, FALSE, FALSE) >>,
     DefinedType |-> << Hint("Definition", "Reference", "parse", TRUE, FALSE, FALSE) >>]

\* The python annotation of a field: [origin, arg].
FieldType(cls, name) ==
    CASE name = "Functions" -> [origin |-> "list", arg |-> "Function"]
      [] name = "ImportedLibraries" -> [origin |-> "list", arg |-> "str"]
      [] name = "Prototype" -> [origin |-> "", arg |-> "Type"]
      [] name = "Kind" -> [origin |-> "", arg |-> "TypeKind"]
      [] name = "IsConst" -> [origin |-> "", arg |-> "bool"]
      [] name = "Size" -> [origin |-> "", arg |-> "int"]
      [] name = "Definition" -> [origin |-> "Reference", arg |-> "Type"]
      [] OTHER -> [origin |-> "", arg |-> "str"]

\* metadata["optional"] of a field.
IsOptional(cls, name) == name \notin {"Entry", "Kind"}

\* A builtin list, as yaml.load and the generated defaults build it.
PyList(data) == [t |-> "list", _data |-> data]

\* The text PythonGenerator.default_value writes for a field, evaluated:
\* "" for a reference or a string, [] for a sequence, False, 0, and None
\* for an upcastable field.
default_value(cls, name) ==
    CASE name \in {"Functions", "ImportedLibraries"} -> PyList(<<>>)
      [] name = "Prototype" -> None
      [] name = "IsConst" -> PyBool(FALSE)
      [] name = "Size" -> PyInt(0)
      [] OTHER -> Str("")

\* hasattr(type, "key"): the classes the generator gives a key() method.
HasKeyMethod(type) == type = "Function"

\* A key that does not tell the elements apart.
key_constant(elem) == "k1"

\* elem.key(): the f-string of the key fields, f"{self.Entry}".
key(elem) == IF elem.Entry.t = "str" THEN elem.Entry.s ELSE "None"

(***************************************************************************)
(* dict operations on a TypeHints entry (an insertion-ordered dict).        *)
(***************************************************************************)
HintKeys(hint) == {hint[i].name : i \in 1..Len(hint)}

HintGet(hint, name) == hint[CHOOSE i \in 1..Len(hint) : hint[i].name = name]

\* dict.update: present keys are overwritten in place, new keys appended.
RECURSIVE HintUpdate(_, _)
HintUpdate(hint, other) ==
    IF other = <<>> THEN hint
    ELSE LET e == Head(other)
             merged == IF e.name \in HintKeys(hint)
                       THEN [i \in 1..Len(hint) |-> IF hint[i].name = e.name THEN e ELSE hint[i]]
                       ELSE Append(hint, e)
         IN HintUpdate(merged, Tail(other))

(***************************************************************************)
(* Path components.  "::" in component and component.split("::", 2).       *)
(***************************************************************************)
FieldNames == UNION {Range(fields(c)) : c \in ClassNames}

Qualified == {[kind |-> k, field |-> f, text |-> k \o "::" \o f] : k \in TypeKind, f \in FieldNames}

HasSep(component) == \E q \in Qualified : q.text = component

SplitSep(component) == CHOOSE q \in Qualified : q.text = component

\* "Type" in composite_type
ContainsType(composite_type) == composite_type \in {"PrimitiveType", "DefinedType"}


(***************************************************************************)
(* Path resolution.                                                        *)
(***************************************************************************)
\* "/".join(parts).split("/")
SplitJoin(parts) == IF parts = <<>> THEN <<"">> ELSE parts

\* _get_type_info(path, root, type_hints): the descriptor of the addressed
\* field, or the exception raised, together with the registry as the call
\* leaves it (root_hint.update merges a variant's hints into the registry
\* entry itself).  The schema has no keyed collection of a "parse" type, so
\* the parseKey branch is never taken.
RECURSIVE _get_type_info(_, _, _)
_get_type_info(path, root, type_hints) ==
    LET path_parts == IF Len(path) > 1 THEN Tail(path) ELSE path
        root_hint == IF root \in DOMAIN type_hints THEN type_hints[root] ELSE <<>>
        head == path_parts[1]
        component == IF HasSep(head) THEN SplitSep(head).field ELSE head
        composite_type == IF HasSep(head) THEN SplitSep(head).kind ELSE ""
        merging == composite_type # "" /\ ContainsType(composite_type)
        via_prototype == "Prototype" \in HintKeys(root_hint)
        via_kind == "Kind" \in HintKeys(root_hint)
        children == IF via_prototype THEN _children(HintGet(root_hint, "Prototype").type)
                    ELSE _children(root)
        composite_type_class == children[composite_type]
        merged_hint == IF merging
                       THEN HintUpdate(root_hint, type_hints[composite_type_class])
                       ELSE root_hint
        hints_after == IF merging THEN [type_hints EXCEPT ![root] = merged_hint]
                       ELSE type_hints
        type_info == HintGet(merged_hint, component)
        part == IF type_info.isArray THEN 2 ELSE 1
        rest == SplitJoin(SubSeq(path_parts, part + 1, Len(path_parts)))
    IN  IF root_hint = <<>> THEN [exc |-> "RuntimeError", hints |-> type_hints]
        ELSE IF merging /\ ~via_prototype /\ ~via_kind
        THEN [exc |-> "UnboundLocalError", hints |-> type_hints]
        ELSE IF merging /\ composite_type \notin DOMAIN children
        THEN [exc |-> "KeyError", hints |-> type_hints]
        ELSE IF component \notin HintKeys(merged_hint)
        THEN [exc |-> "KeyError", hints |-> hints_after]
        ELSE IF Len(path_parts) = 1
        THEN [ret |-> type_info, hints |-> hints_after]
        ELSE _get_type_info(rest, type_info.type, hints_after)

\* get_type_info(path, root=_generated.Binary) of revng.model.v1
get_type_info(path, type_hints) == _get_type_info(path, "Binary", type_hints)

\* _get_element_by_path_array(path, obj)
RECURSIVE _get_element_by_path_array(_, _)
_get_element_by_path_array(path, obj) ==
    IF path = <<>> THEN Raise("IndexError")
    ELSE IF obj.t = "TypedList"
    THEN LET hits == {i \in 1..Len(obj._data) :
                         /\ IsNode(obj._data[i])
                         /\ HasKeyMethod(obj._data[i].t)
                         /\ key(obj._data[i]) = path[1]}
             strangers == {i \in 1..Len(obj._data) : ~IsNode(obj._data[i])}
             first == CHOOSE i \in hits \cup strangers :
                          \A j \in hits \cup strangers : i <= j
         IN  IF Len(obj._data) = 0 THEN Raise("UnboundLocalError")
             ELSE IF hits \cup strangers = {} THEN Raise("RuntimeError")
             ELSE IF first \in strangers THEN Raise("TypeError")
             ELSE IF Len(path) = 1 THEN Ret(obj._data[first])
             ELSE _get_element_by_path_array(Tail(path), obj._data[first])
    ELSE LET qualified == HasSep(path[1])
             component == IF qualified THEN SplitSep(path[1]).field ELSE path[1]
             kind == IF hasattr(obj, "Kind") THEN obj.Kind ELSE None
         IN  IF qualified /\ ~Truthy(kind) THEN Raise("RuntimeError")
             ELSE IF qualified /\ kind.t # "enum" THEN Raise("AttributeError")
             ELSE IF qualified /\ kind.name # SplitSep(path[1]).kind
             THEN Raise("RuntimeError")
             ELSE IF ~IsNode(obj) THEN Raise("TypeError")
             ELSE IF component \notin Range(fields(obj.t)) THEN Raise("RuntimeError")
             ELSE IF Len(path) = 1 THEN Ret(obj[component])
             ELSE _get_element_by_path_array(Tail(path), obj[component])

\* _get_element_by_path(path, obj); "/" is <<"", "">>.
_get_element_by_path(path, obj) ==
    IF path = <<"", "">> THEN Ret(obj)
    ELSE _get_element_by_path_array(Tail(path), obj)

\* _get_parent_element_by_path(path, obj)
_get_parent_element_by_path(path, obj) ==
    LET parent_path == SubSeq(path, 2, Len(path) - 1)
    IN  IF parent_path = <<>> THEN Ret(obj)
        ELSE IF Len(parent_path) > 1
        THEN _get_element_by_path(<<"">> \o parent_path, obj)
        ELSE IF ~IsNode(obj) THEN Raise("TypeError")
        ELSE IF parent_path[1] \in Range(fields(obj.t)) THEN Ret(obj[parent_path[1]])
        ELSE Ret(obj)


(***************************************************************************)
(* Changes and the diff engine.                                            *)
(***************************************************************************)
Diff(path, add, remove) == [Path |-> path, Add |-> add, Remove |-> remove]

\* An in-place write to the object oid: "pop" and "del" delete _data[idx],
\* "append" appends value, "setattr" sets attribute name to value.
Write(oid, op, idx, name, value) == [oid |-> oid, op |-> op, idx |-> idx, name |-> name, value |-> value]

DelAt(seq, idx) == [i \in 1..(Len(seq) - 1) |-> IF i < idx THEN seq[i] ELSE seq[i + 1]]

\* _can_compare(info_object)
_can_compare(info_object) ==
    IF info_object.type = "str" /\ info_object.isArray THEN FALSE
    ELSE info_object.type \in {"str", "Reference", "Identifier", "MetaAddress"}

\* {e.key(): e for e in lst} as a list of [key, value]: a key keeps the
\* position of its first occurrence and the value of its last.
KeyMap(lst) ==
    LET firsts == {i \in 1..Len(lst) : \A j \in 1..(i - 1) : key(lst[j]) # key(lst[i])}
        nth(n) == CHOOSE i \in firsts : Cardinality({j \in firsts : j < i}) = n - 1
        last(k) == CHOOSE i \in 1..Len(lst) :
                       key(lst[i]) = k /\ \A j \in (i + 1)..Len(lst) : key(lst[j]) # k
    IN  [n \in 1..Cardinality(firsts) |->
            [key |-> key(lst[nth(n)]), value |-> lst[last(key(lst[nth(n)]))]]]

\* A positional comparison instead of list.index: head is looked for at the
\* front only.
IndexOf_front_only(seq, head) ==
    IF Len(seq) > 0 /\ PyEq(seq[1], head) THEN 1 ELSE 0

\* list.index(head): the first position holding a value equal to head, 0 if none
IndexOf(seq, head) ==
    IF \E i \in 1..Len(seq) : PyEq(seq[i], head)
    THEN CHOOSE i \in 1..Len(seq) : PyEq(seq[i], head) /\ \A j \in 1..(i - 1) : ~PyEq(seq[j], head)
    ELSE 0

\* The loop of lines 655-663 over the two copies: the changes it appends
\* and the writes it makes to array_old and array_new.
RECURSIVE PlainSequenceLoop(_, _, _, _, _)
PlainSequenceLoop(array_old, array_new, prefix, changes, writes) ==
    IF Len(array_old._data) = 0
    THEN [ret |-> changes \o [i \in 1..Len(array_new._data) |-> Diff(prefix, array_new._data[i], None)],
          writes |-> writes]
    ELSE LET head == array_old._data[1]
             popped == [array_old EXCEPT !._data = Tail(@)]
             pop == Write(array_old.oid, "pop", 1, "", None)
             new_idx == IndexOf(array_new._data, head)
         IN  IF new_idx # 0
             THEN PlainSequenceLoop(popped, [array_new EXCEPT !._data = DelAt(@, new_idx)], prefix,
                                    changes,
                                    writes \o <<pop, Write(array_new.oid, "del", new_idx, "", None)>>)
             ELSE PlainSequenceLoop(popped, array_new, prefix,
                                    Append(changes, Diff(prefix, None, head)),
                                    Append(writes, pop))

\* str(obj.Kind) inside f"{obj_old.Kind}::{key}"
KindText(obj) == IF obj.Kind.t = "enum" THEN obj.Kind.name ELSE "None"

\* _make_diff_subtree: [ret |-> changes, writes |-> writes made] or
\* [exc |-> exception, writes |-> writes made before it].
RECURSIVE _make_diff_subtree(_, _, _, _, _, _)
RECURSIVE KeyedLoop(_, _, _, _, _, _)
RECURSIVE FieldLoop(_, _, _, _, _, _, _)

\* Statement sequencing: the changes and writes of `here`, then those of
\* `rest`, unless one of them raised.
Then(here, rest) ==
    IF IsExc(here) THEN here
    ELSE IF IsExc(rest) THEN [exc |-> rest.exc, writes |-> here.writes \o rest.writes]
    ELSE [ret |-> here.ret \o rest.ret, writes |-> here.writes \o rest.writes]

\* Lines 639-651: the common and removed keys, then the added keys.
KeyedLoop(map_old, map_new, prefix, type_hints, type_info, n) ==
    IF n > Len(map_old)
    THEN LET old_keys == {map_old[i].key : i \in 1..Len(map_old)}
             added == SelectSeq(map_new, LAMBDA kv : kv.key \notin old_keys)
         IN  [ret |-> [i \in 1..Len(added) |-> Diff(prefix, added[i].value, None)], writes |-> <<>>]
    ELSE LET kv == map_old[n]
             same == {i \in 1..Len(map_new) : map_new[i].key = kv.key}
         IN  Then(IF same # {}
                  THEN _make_diff_subtree(kv.value, map_new[CHOOSE i \in same : TRUE].value,
                                          Append(prefix, kv.key), type_hints, type_info, TRUE)
                  ELSE [ret |-> <<Diff(prefix, None, kv.value)>>, writes |-> <<>>],
                  KeyedLoop(map_old, map_new, prefix, type_hints, type_info, n + 1))

\* Lines 666-705: one pass of `for key in info_object`.
FieldLoop(obj_old, obj_new, prefix, type_hints, info_object, upcast, n) ==
    IF n > Len(info_object) THEN [ret |-> <<>>, writes |-> <<>>]
    ELSE IF ~hasattr(obj_old, info_object[n].name) THEN [exc |-> "AttributeError", writes |-> <<>>]
    ELSE LET info == info_object[n]
             new_key == IF upcast THEN KindText(obj_old) \o "::" \o info.name ELSE info.name
             key_prefix == Append(prefix, new_key)
             old == obj_old[info.name]
             new == obj_new[info.name]
         IN  Then(IF ~Truthy(old) /\ Truthy(new) /\ ~info.isArray
                  THEN [ret |-> <<Diff(Append(prefix, info.name), new, None)>>, writes |-> <<>>]
                  ELSE IF Truthy(old) /\ ~Truthy(new) /\ ~info.isArray
                  THEN [ret |-> <<Diff(Append(prefix, info.name), None, old)>>, writes |-> <<>>]
                  ELSE IF ~Truthy(old) /\ ~Truthy(new) /\ ~info.isArray
                  THEN [ret |-> <<>>, writes |-> <<>>]
                  ELSE IF (info.ctor = "native" /\ ~info.isArray) \/ _can_compare(info)
                  THEN [ret |-> IF ~PyEq(old, new) THEN <<Diff(key_prefix, new, old)>> ELSE <<>>,
                        writes |-> <<>>]
                  ELSE _make_diff_subtree(old, new, key_prefix, type_hints, info, FALSE),
                  FieldLoop(obj_old, obj_new, prefix, type_hints, info_object, upcast, n + 1))

_make_diff_subtree(obj_old, obj_new, prefix, type_hints, type_info, in_array) ==
    IF obj_old.t # obj_new.t THEN [ret |-> <<>>, writes |-> <<>>]
    ELSE LET derived_known == type_info.isAbstract /\ obj_old.t \in DOMAIN _children(type_info.type)
             derived_class == _children(type_info.type)[obj_old.t]
             info_object ==
                 IF type_info.isAbstract
                 THEN IF derived_known
                      THEN HintUpdate(type_hints[type_info.type], type_hints[derived_class])
                      ELSE type_hints[type_info.type]
                 ELSE IF type_info.type \in DOMAIN type_hints THEN type_hints[type_info.type]
                 ELSE <<>>
         IN  IF type_info.isArray /\ ~in_array
             THEN IF obj_old.t # "TypedList" THEN [exc |-> "TypeError", writes |-> <<>>]
                  ELSE IF HasKeyMethod(type_info.type)
                  THEN KeyedLoop(KeyMap(obj_old._data), KeyMap(obj_new._data), prefix,
                                 type_hints, type_info, 1)
                  ELSE PlainSequenceLoop(deepcopy(obj_old, "array_old"),
                                         deepcopy(obj_new, "array_new"), prefix, <<>>, <<>>)
             ELSE FieldLoop(obj_old, obj_new, prefix, type_hints, info_object, derived_known, 1)

\* _make_diff(obj_old, obj_new, type_hints, root_type)
_make_diff(old, new, type_hints, root_type) ==
    _make_diff_subtree(old, new, <<"">>, type_hints,
                       [type |-> root_type, ctor |-> "class", isArray |-> FALSE,
                        optional |-> FALSE, isAbstract |-> FALSE],
                       FALSE)

\* make_diff(obj_old, obj_new) of revng.model.v1
make_diff(old, new, type_hints) == _make_diff(old, new, type_hints, "Binary")


(***************************************************************************)
(* In-place writes and their effect on every holder of the written object. *)
(***************************************************************************)
RECURSIVE ApplyWrite(_, _)
ApplyWrite(v, w) ==
    IF v.t = "TypedList"
    THEN LET inner == [i \in 1..Len(v._data) |-> ApplyWrite(v._data[i], w)]
         IN  IF v.oid # w.oid THEN [v EXCEPT !._data = inner]
             ELSE IF w.op \in {"pop", "del"} THEN [v EXCEPT !._data = DelAt(inner, w.idx)]
             ELSE IF w.op = "append" THEN [v EXCEPT !._data = Append(inner, w.value)]
             ELSE [v EXCEPT !._data = inner]
    ELSE IF IsNode(v)
    THEN LET inner == [k \in DOMAIN v |-> IF k \in {"t", "oid"} THEN v[k] ELSE ApplyWrite(v[k], w)]
         IN  IF v.oid = w.oid /\ w.op = "setattr" /\ w.name \in DOMAIN v
             THEN [inner EXCEPT ![w.name] = w.value]
             ELSE IF v.oid = w.oid /\ w.op = "setattr" /\ w.name \in PrivateNames
             THEN [k \in DOMAIN v \cup {w.name} |-> IF k = w.name THEN w.value ELSE inner[k]]
             ELSE inner
    ELSE v

RECURSIVE Replay(_, _)
Replay(v, writes) == IF writes = <<>> THEN v ELSE Replay(ApplyWrite(v, Head(writes)), Tail(writes))

ReplayChanges(changes, writes) ==
    [i \in 1..Len(changes) |-> [changes[i] EXCEPT !.Add = Replay(@, writes), !.Remove = Replay(@, writes)]]

(***************************************************************************)
(* The patch engine.                                                       *)
(***************************************************************************)
\* The verdict without the test of lines 720-723 on an added element.
ChangeIsValid_any_add(diff, target, info) ==
    IF info.isArray
    THEN Truthy(diff.Remove) =>
               /\ target.t = "TypedList"
               /\ \E i \in 1..Len(target._data) : PyEq(target._data[i], diff.Remove)
    ELSE /\ Truthy(diff.Remove) => PyStr(target) = PyStr(diff.Remove)
         /\ ~(Truthy(diff.Add) /\ Truthy(diff.Remove) /\ ~Truthy(target))

\* The verdict of lines 713-729 on one change, given its target and info.
ChangeIsValid(diff, target, info) ==
    IF info.isArray
    THEN /\ Truthy(diff.Remove) =>
               /\ target.t = "TypedList"
               /\ \E i \in 1..Len(target._data) : PyEq(target._data[i], diff.Remove)
         /\ (Truthy(diff.Add) /\ target.t = "TypedList") =>
               ~\E i \in 1..Len(target._data) : PyEq(target._data[i], diff.Add)
    ELSE /\ Truthy(diff.Remove) => PyStr(target) = PyStr(diff.Remove)
         /\ ~(Truthy(diff.Add) /\ Truthy(diff.Remove) /\ ~Truthy(target))

\* _validate_diff(obj, diffs, get_type_info): the boolean returned or the
\* exception raised, and the registry as get_type_info leaves it.
RECURSIVE _validate_diff(_, _, _)
RECURSIVE ValidateChange(_, _, _, _, _)

\* Lines 711-729: one pass of the loop, given the target and the info.
ValidateChange(obj, diffs, type_hints, target, info) ==
    IF IsExc(target) THEN [exc |-> target.exc, hints |-> type_hints]
    ELSE IF IsExc(info) THEN info
    ELSE IF ~ChangeIsValid(Head(diffs), target.ret, info.ret)
    THEN [ret |-> FALSE, hints |-> info.hints]
    ELSE _validate_diff(obj, Tail(diffs), info.hints)

_validate_diff(obj, diffs, type_hints) ==
    IF diffs = <<>> THEN [ret |-> TRUE, hints |-> type_hints]
    ELSE ValidateChange(obj, diffs, type_hints,
                        _get_element_by_path(Head(diffs).Path, obj),
                        get_type_info(Head(diffs).Path, type_hints))

\* validate_diff(obj, diff) of revng.model.v1
validate_diff(obj, diffs, type_hints) == _validate_diff(obj, diffs, type_hints)

\* The last path component with its "Variant::" prefix dropped (lines 752-754).
ElementName(path) ==
    LET element == path[Len(path)]
    IN  IF HasSep(element) THEN SplitSep(element).field ELSE element

\* __setattr__ without the check of lines 157-158.
SetAttr_unchecked(parent, element, value) ==
    IF IsNode(parent) THEN Ret(<<Write(parent.oid, "setattr", 0, element, value)>>)
    ELSE IF parent.t = "TypedList" THEN Ret(<<>>)
    ELSE Raise("AttributeError")

\* setattr(parent, element, value): StructBase.__setattr__ rejects a name
\* that is neither a field nor private; a TypedList takes any attribute;
\* the builtin values take none.
SetAttr(parent, element, value) ==
    IF IsNode(parent)
    THEN IF element \in Range(fields(parent.t)) \/ element \in PrivateNames
         THEN Ret(<<Write(parent.oid, "setattr", 0, element, value)>>)
         ELSE Raise("AttributeError")
    ELSE IF parent.t = "TypedList" THEN Ret(<<>>)
    ELSE Raise("AttributeError")

\* Lines 739-758: the loop over diffs.changes.  idx is the local variable
\* of line 745 (0 while unbound); it outlives the iteration that set it.
RECURSIVE ApplyLoop(_, _, _, _, _)

\* The next iteration, after the writes ws of this one.
ApplyStep(new_obj, changes, n, idx, writes, ws) ==
    ApplyLoop(Replay(new_obj, ws), ReplayChanges(changes, ws), n + 1, idx, writes \o ws)

\* Lines 743-748: the target is a TypedList.
ApplyToList(new_obj, changes, n, idx, writes, diff, target) ==
    LET del == IF Truthy(diff.Remove)
               THEN <<Write(target.oid, "del", idx, "", None)>> ELSE <<>>
        app == IF Truthy(diff.Add)
               THEN <<Write(target.oid, "append", 0, "", diff.Add)>> ELSE <<>>
    IN  IF Truthy(diff.Remove) /\ idx = 0
        THEN [exc |-> "UnboundLocalError", writes |-> writes]
        ELSE IF Truthy(diff.Remove) /\ idx > Len(target._data)
        THEN [exc |-> "IndexError", writes |-> writes]
        ELSE IF Truthy(diff.Add) /\ ~isinstance(diff.Add, target._base_class)
        THEN [exc |-> "ValueError", writes |-> writes \o del]
        ELSE ApplyStep(new_obj, changes, n, idx, writes, del \o app)

\* Lines 749-758: the target is a field of its parent.
ApplyToField(new_obj, changes, n, idx, writes, diff, parent) ==
    IF IsExc(parent) THEN [exc |-> parent.exc, writes |-> writes]
    ELSE LET element == ElementName(diff.Path)
             clear == IF Truthy(diff.Remove)
                      THEN SetAttr(parent.ret, element, None) ELSE Ret(<<>>)
             set == IF Truthy(diff.Add) /\ ~PyEq(diff.Add, Str(""))
                    THEN SetAttr(parent.ret, element, diff.Add) ELSE Ret(<<>>)
         IN  IF IsExc(clear) THEN [exc |-> clear.exc, writes |-> writes]
             ELSE IF IsExc(set) THEN [exc |-> set.exc, writes |-> writes \o clear.ret]
             ELSE ApplyStep(new_obj, changes, n, idx, writes, clear.ret \o set.ret)

\* Lines 740-758: one change, given its target.
ApplyChange(new_obj, changes, n, idx, writes, diff, target) ==
    IF IsExc(target) THEN [exc |-> target.exc, writes |-> writes]
    ELSE IF target.ret.t = "TypedList"
    THEN ApplyToList(new_obj, changes, n,
                     IF Truthy(diff.Remove) /\ IndexOf(target.ret._data, diff.Remove) # 0
                     THEN IndexOf(target.ret._data, diff.Remove) ELSE idx,
                     writes, diff, target.ret)
    ELSE ApplyToField(new_obj, changes, n, idx, writes, diff,
                      _get_parent_element_by_path(diff.Path, new_obj))

ApplyLoop(new_obj, changes, n, idx, writes) ==
    IF n > Len(changes) THEN [ret |-> new_obj, writes |-> writes]
    ELSE ApplyChange(new_obj, changes, n, idx, writes, changes[n],
                     _get_element_by_path(changes[n].Path, new_obj))

\* Lines 738-760, once validation returned True: the pair returned, or the
\* exception raised.
ApplyResult(valid, applied) ==
    IF IsExc(applied)
    THEN [exc |-> applied.exc, hints |-> valid.hints, writes |-> applied.writes, valid |-> TRUE]
    ELSE [ret |-> <<TRUE, applied.ret>>, hints |-> valid.hints, writes |-> applied.writes,
          valid |-> TRUE]

\* Lines 734-760, given the outcome of validate_diff.
ApplyValidated(valid, obj, diffs) ==
    IF IsExc(valid)
    THEN [exc |-> valid.exc, hints |-> valid.hints, writes |-> <<>>, valid |-> FALSE]
    ELSE IF ~valid.ret
    THEN [ret |-> <<FALSE, None>>, hints |-> valid.hints, writes |-> <<>>, valid |-> FALSE]
    ELSE ApplyResult(valid, ApplyLoop(deepcopy(obj, "new_obj"), diffs, 1, 0, <<>>))

\* _apply_diff(obj, diffs, validate_diff): the pair returned, or the
\* exception raised, with the registry and the writes the call leaves;
\* valid tells whether validate_diff returned True.
_apply_diff(obj, diffs, type_hints) ==
    ApplyValidated(validate_diff(obj, diffs, type_hints), obj, diffs)

\* apply_diff(obj, diff) of revng.model.v1
apply_diff(obj, diffs, type_hints) == _apply_diff(obj, diffs, type_hints)


(***************************************************************************)
(* The documents explored.  tag names the objects of one document.         *)
(***************************************************************************)
Names == {"", "a"}
Keys == {"k1", "k2"}
CustomNames == {"", "x"}
Libraries == {"", "a", "b"}
Sizes == {0, 4, 8}
TypeRef == "/TypeDefinitions/1-StructDefinition"

MkFunction(tag, k, name, proto) ==
    [t |-> "Function", oid |-> <<tag, "Functions", k>>,
     Entry |-> Str(k), CustomName |-> Str(name), Prototype |-> proto]

MkPrimitive(tag, k, is_const, size) ==
    [t |-> "PrimitiveType", oid |-> <<tag, "Functions", k, "Prototype">>,
     Kind |-> Enum("TypeKind", "PrimitiveType"), IsConst |-> PyBool(is_const), Size |-> PyInt(size)]

MkDefined(tag, k, is_const, definition) ==
    [t |-> "DefinedType", oid |-> <<tag, "Functions", k, "Prototype">>,
     Kind |-> Enum("TypeKind", "DefinedType"), IsConst |-> PyBool(is_const), Definition |-> definition]

MkBinary(tag, name, functions, libraries) ==
    [t |-> "Binary", oid |-> <<tag>>, Name |-> Str(name),
     Functions |-> TypedList(<<tag, "Functions">>, "Function", functions),
     ImportedLibraries |-> TypedList(<<tag, "ImportedLibraries">>, "str", libraries)]

SeqsUpTo(S, n) == UNION {[1..m -> S] : m \in 0..n}

\* Lists of functions without prototype, with pairwise distinct keys.
FunctionLists(tag) ==
    LET elems == {MkFunction(tag, "k1", n, None) : n \in CustomNames}
                 \cup {MkFunction(tag, "k2", "", None)}
    IN  {l \in SeqsUpTo(elems, MaxSeqLen) :
            \A i, j \in 1..Len(l) : i # j => l[i].Entry # l[j].Entry}

Prototypes(tag, k) ==
    {MkPrimitive(tag, k, c, n) : c \in BOOLEAN, n \in Sizes}
    \cup {MkDefined(tag, k, FALSE, r) :
             r \in {Str(""), Reference("", None), Reference(TypeRef, None),
                    Reference(TypeRef, [t |-> "StructDefinition", ID |-> 1])}}

\* Every family of documents varies one group of fields and leaves the
\* others at their defaults: name and functions, imported libraries, or a
\* prototype.
Families == {"functions", "libraries", "prototypes"}

Documents(family, tag) ==
    CASE family = "functions" ->
            {MkBinary(tag, n, l, <<>>) : n \in Names, l \in FunctionLists(tag)}
      [] family = "libraries" ->
            {MkBinary(tag, "", <<>>, [i \in 1..Len(l) |-> Str(l[i])]) :
                l \in SeqsUpTo(Libraries, MaxSeqLen)}
      [] family = "prototypes" ->
            {MkBinary(tag, "", <<MkFunction(tag, "k1", "", p)>>, <<>>) : p \in Prototypes(tag, "k1")}
            \cup {MkBinary(tag, "", <<MkFunction(tag, "k1", "", MkPrimitive(tag, "k1", FALSE, 8)),
                                     MkFunction(tag, "k2", "", None)>>, <<>>)}

(***************************************************************************)
(* The YAML codec.  A document's text is modelled by the node tree the     *)
(* dumper emits and the loader composes: scalars keep their resolved tag   *)
(* and their text, mappings keep the order of their keys.                  *)
(***************************************************************************)
YScalar(tag, text) == [y |-> "scalar", tag |-> tag, text |-> text]
YSeq(items) == [y |-> "seq", items |-> items]
YMap(keys, m) == [y |-> "map", keys |-> keys, m |-> m]

\* value == other for a field value and a generated default:
\* TypedList.__eq__ (lines 331-335) and Reference.__eq__ (lines 230-233)
\* when the value is one, the builtin comparison otherwise.
FieldEq(value, other) ==
    IF value.t = "TypedList"
    THEN IF other.t = "TypedList" THEN PyEq(value, other)
         ELSE other.t = "list" /\ Strip(value)._data = other._data
    ELSE IF value.t = "Reference" THEN other.t = "Reference" /\ value = other
    ELSE PyEq(value, other)

\* The comparison of line 251 inverted.
_field_is_default_inverted(cls, name, value) ==
    IF ~IsOptional(cls, name) THEN FALSE
    ELSE ~FieldEq(value, default_value(cls, name))

\* _field_is_default(field, value)
_field_is_default(cls, name, value) ==
    IF ~IsOptional(cls, name) THEN FALSE
    ELSE FieldEq(value, default_value(cls, name))

\* dumper.represent_data(v): the representers of the builtin types, of
\* EnumBase, Reference and TypedList, and StructBase.yaml_representer.
RECURSIVE represent(_)
RECURSIVE yaml_representer(_)

yaml_representer(instance) ==
    LET kept == SelectSeq(fields(instance.t),
                          LAMBDA f : ~(\/ _field_is_default(instance.t, f, instance[f])
                                       \/ (instance[f].t = "Reference" /\ ~is_valid(instance[f]))))
    IN  YMap(kept, [f \in Range(kept) |-> represent(instance[f])])

represent(v) ==
    CASE v.t = "str" -> YScalar("str", v.s)
      [] v.t = "int" -> YScalar("int", ToString(v.n))
      [] v.t = "bool" -> YScalar("bool", IF v.b THEN "true" ELSE "false")
      [] v.t = "None" -> YScalar("null", "null")
      [] v.t = "enum" -> YScalar("str", v.name)
      [] v.t = "Reference" -> YScalar("str", v._ref_str)
      [] v.t = "TypedList" -> YSeq([i \in 1..Len(v._data) |-> represent(v._data[i])])
      [] OTHER -> yaml_representer(v)

\* dump_model(path, obj): the text written.
dump_model(obj) == represent(obj)

\* Diff._to_dict: Path always, Add and Remove when truthy.
_to_dict(change) ==
    [k \in {"Path"} \cup (IF Truthy(change.Add) THEN {"Add"} ELSE {})
                    \cup (IF Truthy(change.Remove) THEN {"Remove"} ELSE {}) |-> change[k]]

\* dump_diff_to_string(diff): the entries under Changes, each the mapping
\* Diff.yaml_representer gives the dumper.
dump_diff_to_string(changes) ==
    [i \in 1..Len(changes) |->
        [k \in DOMAIN _to_dict(changes[i]) |->
            IF k = "Path" THEN changes[i].Path ELSE represent(_to_dict(changes[i])[k])]]

\* loader.construct_mapping(node, deep=True) and the constructors of the
\* builtin tags: str, int, bool, None, list and dict.
RECURSIVE construct(_)
construct(node) ==
    CASE node.y = "seq" -> PyList([i \in 1..Len(node.items) |-> construct(node.items[i])])
      [] node.y = "map" ->
            [t |-> "dict", keys |-> node.keys, m |-> [k \in DOMAIN node.m |-> construct(node.m[k])]]
      [] node.tag = "int" -> PyInt(CHOOSE n \in Sizes \cup {0} : ToString(n) = node.text)
      [] node.tag = "bool" -> PyBool(node.text = "true")
      [] node.tag = "null" -> None
      [] OTHER -> Str(node.text)

\* The position of the first outcome that is an exception, 0 if none.
FirstExc(outcomes) ==
    IF \E n \in 1..Len(outcomes) : IsExc(outcomes[n])
    THEN CHOOSE n \in 1..Len(outcomes) :
             IsExc(outcomes[n]) /\ \A m \in 1..(n - 1) : ~IsExc(outcomes[m])
    ELSE 0

\* `except ValueError as e: raise <to> from e` (lines 85-92, 103-109)
Reraise(outcome, to) ==
    IF IsExc(outcome) /\ outcome.exc = "ValueError" THEN Raise(to) ELSE outcome

no_default == [t |-> "no_default"]

\* The dataclass default of a field in the generated classes: the
\* generated default value for an optional field, no_default otherwise.
FieldDefault(cls, name) ==
    IF IsOptional(cls, name) THEN default_value(cls, name) ELSE no_default

\* cls(**constructor_kwargs): the dataclass __init__ and __post_init__
\* (lines 138-153); oid names the new object.
PostInit(cls, constructor_kwargs, oid) ==
    LET value(f) == IF f \in DOMAIN constructor_kwargs THEN constructor_kwargs[f]
                    ELSE FieldDefault(cls, f)
        checked == [n \in 1..Len(fields(cls)) |->
                       LET f == fields(cls)[n]
                       IN  IF value(f).t = "no_default" THEN Raise("TypeError")
                           ELSE IF FieldType(cls, f).origin # "list" THEN Ret(value(f))
                           ELSE IF \E i \in 1..Len(value(f)._data) :
                                      ~isinstance(value(f)._data[i], FieldType(cls, f).arg)
                           THEN Raise("ValueError")
                           ELSE Ret(TypedList(Append(oid, f), FieldType(cls, f).arg,
                                              value(f)._data))]
    IN  IF FirstExc(checked) # 0 THEN checked[FirstExc(checked)]
        ELSE Ret([k \in {"t", "oid"} \cup Range(fields(cls)) |->
                     IF k = "t" THEN cls
                     ELSE IF k = "oid" THEN oid
                     ELSE checked[CHOOSE n \in 1..Len(fields(cls)) : fields(cls)[n] = k].ret])

\* The end of StructBase.from_dict (lines 111-112), given the outcome of
\* the conversion of every keyword.
Construct(cls, keys, converted, oid) ==
    IF FirstExc(converted) # 0 THEN converted[FirstExc(converted)]
    ELSE PostInit(cls, [k \in Range(keys) |->
                           converted[CHOOSE n \in 1..Len(keys) : keys[n] = k].ret], oid)

\* Lines 82-94: the list of the converted elements, or the first exception.
Instances(converted) ==
    IF FirstExc(converted) # 0 THEN converted[FirstExc(converted)]
    ELSE Ret(PyList([i \in 1..Len(converted) |-> converted[i].ret]))

RECURSIVE _create_instance(_, _, _)
RECURSIVE from_dict(_, _, _)
RECURSIVE ConvertField(_, _, _, _)

\* _create_instance(field_value, field_type)
_create_instance(field_value, field_type, oid) ==
    IF isinstance(field_value, field_type) THEN Ret(field_value)
    ELSE IF field_value.t = "str" /\ field_type = "TypeKind"
    THEN IF field_value.s \in TypeKind THEN Ret(Enum("TypeKind", field_value.s))
         ELSE Raise("ValueError")
    ELSE IF field_value.t = "dict" /\ field_type \in ClassNames
    THEN from_dict(field_type, field_value, oid)
    ELSE IF field_value.t = "str" /\ field_type \in ClassNames
    THEN Raise("NotImplementedError")
    ELSE Raise("TypeError")

\* from_dict without the check of lines 63-65: an undeclared keyword is
\* passed on as it is.
ConvertField_unchecked(cls, field_name, field_value, oid) ==
    IF field_name \notin Range(fields(cls)) THEN Ret(field_value)
    ELSE IF FieldType(cls, field_name).origin = "list"
    THEN IF field_value.t # "list" THEN Raise("ValueError")
         ELSE Instances([i \in 1..Len(field_value._data) |->
                            _create_instance(field_value._data[i], FieldType(cls, field_name).arg,
                                             Append(Append(oid, field_name), ToString(i)))])
    ELSE IF FieldType(cls, field_name).origin = "Reference"
    THEN IF field_value.t = "str" THEN Ret(Reference(field_value.s, None))
         ELSE Raise("ValueError")
    ELSE Reraise(_create_instance(field_value, FieldType(cls, field_name).arg,
                                  Append(oid, field_name)), "TypeError")

\* Lines 62-109 of StructBase.from_dict: one keyword.
ConvertField(cls, field_name, field_value, oid) ==
    IF field_name \notin Range(fields(cls)) THEN Raise("ValueError")
    ELSE IF FieldType(cls, field_name).origin = "list"
    THEN IF field_value.t # "list" THEN Raise("ValueError")
         ELSE Instances([i \in 1..Len(field_value._data) |->
                            _create_instance(field_value._data[i], FieldType(cls, field_name).arg,
                                             Append(Append(oid, field_name), ToString(i)))])
    ELSE IF FieldType(cls, field_name).origin = "Reference"
    THEN IF field_value.t = "str" THEN Ret(Reference(field_value.s, None))
         ELSE Raise("ValueError")
    ELSE Reraise(_create_instance(field_value, FieldType(cls, field_name).arg,
                                  Append(oid, field_name)), "TypeError")

\* cls.from_dict(**kwargs): AbstractStructBase.from_dict (lines 165-177)
\* for the upcastable classes, StructBase.from_dict for the others.
from_dict(cls, kwargs, oid) ==
    IF cls \in DOMAIN _children(cls) \cup {"Type"} /\ "Kind" \notin DOMAIN kwargs.m
    THEN Raise("ValueError")
    ELSE IF cls \in DOMAIN _children(cls) \cup {"Type"}
            /\ (kwargs.m["Kind"].t # "str" \/ kwargs.m["Kind"].s \notin DOMAIN _children(cls))
    THEN Raise("ValueError")
    ELSE IF cls \in DOMAIN _children(cls) \cup {"Type"} /\ _children(cls)[kwargs.m["Kind"].s] # cls
    THEN from_dict(_children(cls)[kwargs.m["Kind"].s], kwargs, oid)
    ELSE Construct(cls, kwargs.keys,
                   [n \in 1..Len(kwargs.keys) |->
                       ConvertField(cls, kwargs.keys[n], kwargs.m[kwargs.keys[n]], oid)],
                   oid)

\* The tag the loader gives the root node of a document.
RootTag == "Binary"

\* load_model_from_string(model): yaml_constructor of the root class, on
\* the text of a model.
load_model_from_string(text) ==
    IF text.y = "map" THEN from_dict(RootTag, construct(text), <<"loaded">>)
    ELSE Ret(construct(text))


(***************************************************************************)
(* Hand-built change sets (DiffSet(changes), lines 409-411 and 436-440).   *)
(***************************************************************************)
\* The Function nodes of a document, and the non-empty prototypes among
\* their fields: the objects of root a caller can put into a change.
FunctionsOf(root) == Range(root.Functions._data)

CandidateChanges(root) ==
    {Diff(<<"", "Functions">>, e, None) :
        e \in {MkFunction("cs", "k1", "", None), MkFunction("cs", "k1", "x", None)}}
    \cup {Diff(<<"", "Functions">>, None, MkFunction("cs", "k1", "", None))}
    \cup {Diff(<<"", "Name">>, Str("a"), None), Diff(<<"", "Name">>, Str("b"), None),
          Diff(<<"", "Name">>, None, Str("a")), Diff(<<"", "Name">>, Str("b"), Str("a"))}
    \cup {Diff(<<"", "ImportedLibraries">>, Str("a"), None)}
    \cup {Diff(<<"", "Bogus">>, Str("a"), None),
          Diff(<<"", "Functions", "k2", "CustomName">>, Str("x"), None)}
    \cup {Diff(<<"", "Functions", "k1", "Prototype", "PrimitiveType::Size">>, PyInt(4), PyInt(8))}
    \cup {Diff(<<"", "Functions", key(g), "Prototype">>, f.Prototype, None) :
            f \in {h \in FunctionsOf(root) : Truthy(h.Prototype)}, g \in FunctionsOf(root)}

CandidateSets(root) ==
    {cs \in SeqsUpTo(CandidateChanges(root), MaxChanges) : cs # <<>>}

Outcome(r) == IF IsExc(r) THEN Raise(r.exc) ELSE Ret(r.ret)

(***************************************************************************)
(* The state machine: a caller holding two snapshots and a change set.     *)
(* result is the outcome of the last call, pc the caller's position and    *)
(* saved the snapshots and the change set as they were before that call.   *)
(***************************************************************************)
Init ==
    /\ TypeHints = GeneratedTypeHints
    /\ \E family \in Families :
          /\ snapshot_old \in Documents(family, "old")
          /\ snapshot_new \in Documents(family, "new")
    /\ change_set = <<>>
    /\ result = [op |-> "none"]
    /\ pc = "start"
    /\ saved = [old |-> snapshot_old, new |-> snapshot_new, changes |-> change_set]
    /\ model = None
    /\ last_saved_model = None
    /\ resume_dir = None
    /\ resolvers = <<>>
    /\ work_queue = <<>>
    /\ running = {}
    /\ launcher = None

\* change_set = make_diff(snapshot_old, snapshot_new).changes
MakeDiff ==
    /\ pc = "start"
    /\ \E r \in {make_diff(snapshot_old, snapshot_new, TypeHints)} :
          /\ result' = [op |-> "make_diff", out |-> Outcome(r)]
          /\ change_set' = IF IsExc(r) THEN <<>> ELSE r.ret
          /\ snapshot_old' = Replay(snapshot_old, r.writes)
          /\ snapshot_new' = Replay(snapshot_new, r.writes)
          /\ pc' = IF IsExc(r) THEN "raised" ELSE "diffed"
    /\ saved' = [old |-> snapshot_old, new |-> snapshot_new, changes |-> change_set]
    /\ UNCHANGED TypeHints
    /\ UNCHANGED project_vars
    /\ UNCHANGED service_vars

\* The caller builds a change set by hand; the second snapshot plays no
\* part then and is held equal to the root.
BuildDiffSet ==
    /\ pc = "start"
    /\ PyEq(snapshot_new, snapshot_old)
    /\ change_set' \in CandidateSets(snapshot_old)
    /\ result' = [op |-> "DiffSet"]
    /\ pc' = "built"
    /\ saved' = [old |-> snapshot_old, new |-> snapshot_new, changes |-> change_set]
    /\ UNCHANGED <<TypeHints, snapshot_old, snapshot_new>>
    /\ UNCHANGED project_vars
    /\ UNCHANGED service_vars

\* validate_diff(snapshot_old, change_set)
ValidateDiff ==
    /\ pc \in {"diffed", "built"}
    /\ \E r \in {validate_diff(snapshot_old, change_set, TypeHints)} :
          /\ result' = [op |-> "validate_diff", origin |-> pc, out |-> Outcome(r)]
          /\ TypeHints' = r.hints
    /\ pc' = "validated"
    /\ saved' = [old |-> snapshot_old, new |-> snapshot_new, changes |-> change_set]
    /\ UNCHANGED <<snapshot_old, snapshot_new, change_set>>
    /\ UNCHANGED project_vars
    /\ UNCHANGED service_vars

\* apply_diff(snapshot_old, change_set)
ApplyDiff ==
    /\ pc \in {"diffed", "built"}
    /\ \E r \in {apply_diff(snapshot_old, change_set, TypeHints)} :
          /\ result' = [op |-> "apply_diff", origin |-> pc, out |-> Outcome(r), valid |-> r.valid]
          /\ TypeHints' = r.hints
          /\ snapshot_old' = Replay(snapshot_old, r.writes)
          /\ snapshot_new' = Replay(snapshot_new, r.writes)
          /\ change_set' = ReplayChanges(change_set, r.writes)
    /\ pc' = "applied"
    /\ saved' = [old |-> snapshot_old, new |-> snapshot_new, changes |-> change_set]
    /\ UNCHANGED project_vars
    /\ UNCHANGED service_vars

Permute(seq, perm) == [i \in 1..Len(seq) |-> seq[perm[i]]]

\* apply_diff(snapshot_old, a permutation of change_set), after a first
\* application whose validation accepted the set.
ApplyPermuted ==
    /\ pc = "applied"
    /\ result.valid
    /\ \E perm \in Permutations(1..Len(change_set)) :
          \E r \in {apply_diff(snapshot_old, Permute(change_set, perm), TypeHints)} :
              /\ result' = [op |-> "apply_permuted", first |-> result.out, out |-> Outcome(r),
                            perm |-> perm]
              /\ TypeHints' = r.hints
              /\ snapshot_old' = Replay(snapshot_old, r.writes)
              /\ snapshot_new' = Replay(snapshot_new, r.writes)
              /\ change_set' = ReplayChanges(change_set, r.writes)
    /\ pc' = "reapplied"
    /\ UNCHANGED saved
    /\ UNCHANGED project_vars
    /\ UNCHANGED service_vars

\* The attribute assignments the caller may make on a node of a document.
RECURSIVE NodesOf(_)
NodesOf(v) ==
    IF v.t = "TypedList" THEN UNION {NodesOf(v._data[i]) : i \in 1..Len(v._data)}
    ELSE IF IsNode(v) THEN {v} \cup UNION {NodesOf(v[k]) : k \in DOMAIN v \ {"t", "oid"}}
    ELSE {}

EditsOf(doc) ==
    {Write(n.oid, "setattr", 0, "Name", Str("edited")) : n \in {m \in NodesOf(doc) : m.t = "Binary"}}
    \cup {Write(n.oid, "setattr", 0, "CustomName", Str("edited")) :
             n \in {m \in NodesOf(doc) : m.t = "Function"}}
    \cup {Write(n.oid, "setattr", 0, "IsConst", PyBool(~n.IsConst.b)) :
             n \in {m \in NodesOf(doc) : m.t \in {"PrimitiveType", "DefinedType"}}}

\* An in-place edit of the document apply_diff returned.
EditResult ==
    /\ pc = "applied"
    /\ ~IsExc(result.out)
    /\ result.out.ret[1]
    /\ \E w \in EditsOf(result.out.ret[2]) :
          /\ result' = [op |-> "edit", out |-> Ret(<<TRUE, ApplyWrite(result.out.ret[2], w)>>)]
          /\ snapshot_old' = ApplyWrite(snapshot_old, w)
          /\ snapshot_new' = ApplyWrite(snapshot_new, w)
          /\ change_set' = ReplayChanges(change_set, <<w>>)
    /\ pc' = "edited"
    /\ UNCHANGED <<TypeHints, saved>>
    /\ UNCHANGED project_vars
    /\ UNCHANGED service_vars

\* The caller goes on with the same snapshots in the same process.
Restart ==
    /\ pc \in {"validated", "applied"}
    /\ pc' = "start"
    /\ change_set' = <<>>
    /\ result' = [op |-> "none"]
    /\ saved' = [old |-> snapshot_old, new |-> snapshot_new, changes |-> <<>>]
    /\ UNCHANGED <<TypeHints, snapshot_old, snapshot_new>>
    /\ UNCHANGED project_vars
    /\ UNCHANGED service_vars

\* text = the rendering of snapshot_old (dump_model)
DumpModel ==
    /\ pc = "start"
    /\ result' = [op |-> "dump_model", out |-> Ret(dump_model(snapshot_old))]
    /\ pc' = "dumped"
    /\ UNCHANGED <<TypeHints, snapshot_old, snapshot_new, change_set, saved>>
    /\ UNCHANGED project_vars
    /\ UNCHANGED service_vars

\* load_model_from_string(text)
LoadModel ==
    /\ pc = "dumped"
    /\ result' = [op |-> "load_model", text |-> result.out.ret,
                  out |-> load_model_from_string(result.out.ret)]
    /\ pc' = "loaded"
    /\ UNCHANGED <<TypeHints, snapshot_old, snapshot_new, change_set, saved>>
    /\ UNCHANGED project_vars
    /\ UNCHANGED service_vars

(***************************************************************************)
(* Construction of a node from a mapping a caller supplies.                *)
(***************************************************************************)
\* The mappings of a rendered document with the class each is constructed
\* as: the root, the elements of Functions and their Prototype.
MappingsOf(text) ==
    LET functions == IF "Functions" \in DOMAIN text.m THEN text.m["Functions"].items ELSE <<>>
    IN  {[cls |-> "Binary", node |-> text]}
        \cup {[cls |-> "Function", node |-> functions[i]] : i \in 1..Len(functions)}
        \cup {[cls |-> "Type", node |-> functions[i].m["Prototype"]] :
                 i \in {j \in 1..Len(functions) : "Prototype" \in DOMAIN functions[j].m}}

\* The mapping itself, the mapping with one more key, and the mapping with
\* one of its keys left out.
Perturbations(node) ==
    {node}
    \cup {YMap(Append(node.keys, "Bogus"),
               [k \in Range(node.keys) \cup {"Bogus"} |->
                   IF k = "Bogus" THEN YScalar("str", "x") ELSE node.m[k]])}
    \cup {YMap(SelectSeq(node.keys, LAMBDA k : k # dropped),
               [k \in Range(node.keys) \ {dropped} |-> node.m[k]]) : dropped \in Range(node.keys)}

\* cls.from_dict(**mapping) on a mapping taken from the rendered text
FromDict ==
    /\ pc = "dumped"
    /\ \E mp \in MappingsOf(result.out.ret) :
          \E node \in Perturbations(mp.node) :
              result' = [op |-> "from_dict", cls |-> mp.cls, kwargs |-> construct(node),
                         out |-> from_dict(mp.cls, construct(node), <<"built">>)]
    /\ pc' = "constructed"
    /\ UNCHANGED <<TypeHints, snapshot_old, snapshot_new, change_set, saved>>
    /\ UNCHANGED project_vars
    /\ UNCHANGED service_vars

(***************************************************************************)
(* Attribute assignments on the nodes of a document.                       *)
(***************************************************************************)
MaxAssignments == 2

\* The assignments a caller tries on node n: a declared field, the private
\* attribute, and a name the class does not declare.
AssignmentsOn(n) ==
    {[name |-> "_project", value |-> [t |-> "Project"]],
     [name |-> "Bogus", value |-> Str("edited")],
     IF n.t = "Binary" THEN [name |-> "Name", value |-> Str("edited")]
     ELSE IF n.t = "Function" THEN [name |-> "CustomName", value |-> Str("edited")]
     ELSE [name |-> "IsConst", value |-> PyBool(~n.IsConst.b)]}

\* setattr(n, name, value) on a node n of snapshot_old
SetAttribute ==
    /\ pc \in {"start", "assigned"}
    /\ pc = "assigned" => result.count < MaxAssignments
    /\ \E n \in NodesOf(snapshot_old) :
          \E a \in AssignmentsOn(n) :
              \E r \in {SetAttr(n, a.name, a.value)} :
                  /\ result' = [op |-> "setattr", oid |-> n.oid, name |-> a.name, value |-> a.value,
                                out |-> IF IsExc(r) THEN r ELSE Ret(None),
                                count |-> IF pc = "assigned" THEN result.count + 1 ELSE 1]
                  /\ snapshot_old' = IF IsExc(r) THEN snapshot_old ELSE Replay(snapshot_old, r.ret)
    /\ pc' = "assigned"
    /\ saved' = [old |-> snapshot_old, new |-> snapshot_new, changes |-> change_set]
    /\ UNCHANGED <<TypeHints, snapshot_new, change_set>>
    /\ UNCHANGED project_vars
    /\ UNCHANGED service_vars

(***************************************************************************)
(* Path resolution by a caller (get_element_by_path of revng.model.v1).    *)
(***************************************************************************)
CandidatePaths ==
    {<<"", "Name">>, <<"", "Bogus">>, <<"", "Functions">>, <<"", "Functions", "k1">>,
     <<"", "Functions", "k1", "CustomName">>, <<"", "Functions", "k2", "CustomName">>,
     <<"", "Functions", "k1", "Bogus">>}

\* get_element_by_path(path, snapshot_old)
GetElementByPath ==
    /\ pc = "start"
    /\ \E path \in CandidatePaths :
          result' = [op |-> "get_element_by_path", path |-> path,
                     out |-> _get_element_by_path(path, snapshot_old)]
    /\ pc' = "resolved"
    /\ UNCHANGED <<TypeHints, snapshot_old, snapshot_new, change_set, saved>>
    /\ UNCHANGED project_vars
    /\ UNCHANGED service_vars

(***************************************************************************)
(* TypedList: the mutations of a list of a document.  Each method gives   *)
(* the outcome of the call and the elements the list holds afterwards.    *)
(* Indices are python's, from 0.                                           *)
(***************************************************************************)
MaxListCalls == 2

InsertAt(seq, index, obj) ==
    [i \in 1..(Len(seq) + 1) |-> IF i <= index THEN seq[i] ELSE IF i = index + 1 THEN obj ELSE seq[i - 1]]

\* TypedList.__setitem__(idx, obj)
__setitem__(self, idx, obj) ==
    IF ~isinstance(obj, self._base_class) THEN [out |-> Raise("ValueError"), data |-> self._data]
    ELSE IF idx >= Len(self._data) THEN [out |-> Raise("IndexError"), data |-> self._data]
    ELSE [out |-> Ret(None), data |-> [self._data EXCEPT ![idx + 1] = obj]]

\* insert without the check of lines 301-304.
insert_unchecked(self, index, obj) ==
    [out |-> Ret(None),
     data |-> InsertAt(self._data, IF index > Len(self._data) THEN Len(self._data) ELSE index, obj)]

\* TypedList.insert(index, obj): list.insert takes an index past the end
\* for the end.
insert(self, index, obj) ==
    IF ~isinstance(obj, self._base_class) THEN [out |-> Raise("ValueError"), data |-> self._data]
    ELSE [out |-> Ret(None),
          data |-> InsertAt(self._data, IF index > Len(self._data) THEN Len(self._data) ELSE index, obj)]

\* MutableSequence.append(value): self.insert(len(self), value)
append(self, value) == insert(self, Len(self._data), value)

\* MutableSequence.extend(values): append each value in turn; the values
\* appended before one is refused stay.
RECURSIVE extend(_, _)
extend(self, values) ==
    IF values = <<>> THEN [out |-> Ret(None), data |-> self._data]
    ELSE LET first == append(self, Head(values))
         IN  IF IsExc(first.out) THEN first
             ELSE extend([self EXCEPT !._data = first.data], Tail(values))

\* TypedList.__delitem__(idx)
__delitem__(self, idx) ==
    IF idx >= Len(self._data) THEN [out |-> Raise("IndexError"), data |-> self._data]
    ELSE [out |-> Ret(None), data |-> DelAt(self._data, idx + 1)]

\* The lists of a document and the arguments a caller passes.
ListFields == {"Functions", "ImportedLibraries"}

ListIndices == 0..1

ListObjects == {MkFunction("arg", "k2", "", None), Str("a"), None}

ListExtensions == {<<a, b>> : a, b \in ListObjects \ {None}}

\* The calls tried on one list.
ListCalls(self) ==
    {[method |-> "__setitem__", idx |-> i, obj |-> o, values |-> <<>>, r |-> __setitem__(self, i, o)] :
        i \in ListIndices, o \in ListObjects}
    \cup {[method |-> "insert", idx |-> i, obj |-> o, values |-> <<>>, r |-> insert(self, i, o)] :
             i \in ListIndices, o \in ListObjects}
    \cup {[method |-> "append", idx |-> 0, obj |-> o, values |-> <<>>, r |-> append(self, o)] :
             o \in ListObjects}
    \cup {[method |-> "extend", idx |-> 0, obj |-> None, values |-> v, r |-> extend(self, v)] :
             v \in ListExtensions}
    \cup {[method |-> "__delitem__", idx |-> i, obj |-> None, values |-> <<>>, r |-> __delitem__(self, i)] :
             i \in ListIndices}

\* One call of a mutating method on a list of snapshot_old; the second
\* snapshot plays no part and is held equal to the first.
TypedListCall ==
    /\ pc \in {"start", "mutated"}
    /\ pc = "start" => PyEq(snapshot_new, snapshot_old)
    /\ pc = "mutated" => result.count < MaxListCalls
    /\ \E field \in ListFields :
          \E call \in ListCalls(snapshot_old[field]) :
              /\ result' = [op |-> "typedlist", field |-> field, method |-> call.method,
                            idx |-> call.idx, obj |-> call.obj, values |-> call.values,
                            out |-> call.r.out,
                            count |-> IF pc = "mutated" THEN result.count + 1 ELSE 1]
              /\ snapshot_old' = [snapshot_old EXCEPT ![field]._data = call.r.data]
    /\ pc' = "mutated"
    /\ saved' = [old |-> snapshot_old, new |-> snapshot_new, changes |-> change_set]
    /\ UNCHANGED <<TypeHints, snapshot_new, change_set>>
    /\ UNCHANGED project_vars
    /\ UNCHANGED service_vars

\* text = dump_diff_to_string(DiffSet(change_set))
DumpDiffToString ==
    /\ pc \in {"diffed", "built"}
    /\ result' = [op |-> "dump_diff_to_string", origin |-> pc,
                  out |-> Ret(dump_diff_to_string(change_set))]
    /\ pc' = "rendered"
    /\ saved' = [old |-> snapshot_old, new |-> snapshot_new, changes |-> change_set]
    /\ UNCHANGED <<TypeHints, snapshot_old, snapshot_new, change_set>>
    /\ UNCHANGED project_vars
    /\ UNCHANGED service_vars

Next ==
    \/ MakeDiff
    \/ BuildDiffSet
    \/ ValidateDiff
    \/ ApplyDiff
    \/ ApplyPermuted
    \/ EditResult
    \/ Restart
    \/ DumpModel
    \/ LoadModel
    \/ FromDict
    \/ SetAttribute
    \/ GetElementByPath
    \/ DumpDiffToString
    \/ TypedListCall

Spec == Init /\ [][Next]_vars

(***************************************************************************)
(* The scripting project (revng.scripting.projects): a working model, the  *)
(* model as last saved, and a backend that keeps the model of the resume   *)
(* directory.  The backend is the revng executable or daemon; its          *)
(* apply-diff analysis follows the patch engine of the specification.      *)
(***************************************************************************)
MaxEdits == 2

\* Binary(): every field at its default (Project.__init__).
EmptyBinary == MkBinary("new", "", <<>>, <<>>)

\* The objects of a tree named by their position under oid.  The three
\* trees of a project share no object, so each keeps its own names.
RECURSIVE Canon(_, _)
Canon(v, oid) ==
    IF v.t = "TypedList"
    THEN [v EXCEPT !.oid = oid,
                   !._data = [i \in 1..Len(v._data) |-> Canon(v._data[i], Append(oid, ToString(i)))]]
    ELSE IF IsNode(v)
    THEN [k \in DOMAIN v |-> IF k = "t" THEN v[k]
                             ELSE IF k = "oid" THEN oid
                             ELSE Canon(v[k], Append(oid, k))]
    ELSE v

\* The names Canon gives the objects of a tree: from the identity of each
\* object to the name of its position under oid.
RECURSIVE Renaming(_, _)
Renaming(v, oid) ==
    IF v.t = "TypedList"
    THEN {[from |-> v.oid, to |-> oid]}
         \cup UNION {Renaming(v._data[i], Append(oid, ToString(i))) : i \in 1..Len(v._data)}
    ELSE IF IsNode(v)
    THEN {[from |-> v.oid, to |-> oid]}
         \cup UNION {Renaming(v[k], Append(oid, k)) : k \in DOMAIN v \ {"t", "oid"}}
    ELSE {}

\* The objects of a second tree named next to a first one: an object that
\* is also an object of the first tree keeps the name it has there, every
\* other object is named by its position under oid.
RECURSIVE CanonAgainst(_, _, _)
CanonAgainst(v, renaming, oid) ==
    LET hits == {r \in renaming : r.from = v.oid}
        name == IF hits = {} THEN oid ELSE (CHOOSE r \in hits : TRUE).to
    IN  IF v.t = "TypedList"
        THEN [v EXCEPT !.oid = name,
                       !._data = [i \in 1..Len(v._data) |->
                                     CanonAgainst(v._data[i], renaming, Append(oid, ToString(i)))]]
        ELSE IF IsNode(v)
        THEN [k \in DOMAIN v |-> IF k = "t" THEN v[k]
                                 ELSE IF k = "oid" THEN name
                                 ELSE CanonAgainst(v[k], renaming, Append(oid, k))]
        ELSE v

\* ct.get("ModelPath") of the ranks of the pipeline description.
ModelPaths == {<<"", "Functions">>}

\* Project._set_model_mixins: obj._project = self on the object, or on the
\* elements of the list, at every model path.
_set_model_mixins(doc) ==
    LET functions == _get_element_by_path(<<"", "Functions">>, doc).ret
    IN  Replay(doc, [i \in 1..Len(functions._data) |->
                        Write(functions._data[i].oid, "setattr", 0, "_project", [t |-> "Project"])])

\* Project._set_model(model), with the pipeline description loaded.
_set_model(doc) ==
    [model |-> Canon(_set_model_mixins(doc), <<"model">>),
     last_saved_model |-> CanonAgainst(deepcopy(doc, "copy"), Renaming(doc, <<"model">>),
                                       <<"last_saved_model">>)]

\* The text of the model the backend returns: the rendering of the
\* document it keeps.
BackendModelText(store) == dump_model(store)

\* dump_diff / dump_diff_to_string: Diff._to_dict leaves a falsy Add or
\* Remove out; the values are rendered by their representers.
dump_diff(changes) ==
    [i \in 1..Len(changes) |->
        [Path |-> changes[i].Path,
         Add |-> IF Truthy(changes[i].Add) THEN represent(changes[i].Add) ELSE YScalar("null", "null"),
         Remove |-> IF Truthy(changes[i].Remove) THEN represent(changes[i].Remove)
                    ELSE YScalar("null", "null")]]

\* The backend's reading of one value of a change: a mapping is a node of
\* the class the path addresses, a scalar is itself.
BackendParse(path, text, oid) ==
    IF text.y = "map"
    THEN from_dict(IF path[Len(path)] = "Functions" THEN "Function" ELSE "Type",
                   construct(text), oid).ret
    ELSE construct(text)

BackendParseDiff(diff_text) ==
    [i \in 1..Len(diff_text) |->
        Diff(diff_text[i].Path,
             BackendParse(diff_text[i].Path, diff_text[i].Add, <<"diff", ToString(i), "Add">>),
             BackendParse(diff_text[i].Path, diff_text[i].Remove, <<"diff", ToString(i), "Remove">>))]

\* The validation rules of the patch engine for one change, given the
\* outcome of resolving its path.
BackendValid(change, target) ==
    IF IsExc(target) THEN FALSE
    ELSE IF target.ret.t = "TypedList"
    THEN /\ Truthy(change.Remove) =>
               \E i \in 1..Len(target.ret._data) : PyEq(target.ret._data[i], change.Remove)
         /\ Truthy(change.Add) =>
               ~\E i \in 1..Len(target.ret._data) : PyEq(target.ret._data[i], change.Add)
    ELSE /\ Truthy(change.Remove) => PyStr(target.ret) = PyStr(change.Remove)
         /\ (Truthy(change.Add) /\ ~Truthy(change.Remove)) => ~Truthy(target.ret)

\* The writes of one change on the backend's document: a collection loses
\* the removed element and gains the added one; a field is set to the
\* added value, or cleared to its declared default when only removing.
BackendWrites(change, target, parent) ==
    IF target.t = "TypedList"
    THEN (IF Truthy(change.Remove)
          THEN <<Write(target.oid, "del", IndexOf(target._data, change.Remove), "", None)>>
          ELSE <<>>)
         \o (IF Truthy(change.Add) THEN <<Write(target.oid, "append", 0, "", change.Add)>> ELSE <<>>)
    ELSE <<Write(parent.oid, "setattr", 0, ElementName(change.Path),
                 IF Truthy(change.Add) THEN change.Add
                 ELSE default_value(parent.t, ElementName(change.Path)))>>

RECURSIVE BackendApply(_, _)
BackendApply(store, changes) ==
    IF changes = <<>> THEN store
    ELSE BackendApply(Replay(store,
                             BackendWrites(Head(changes),
                                           _get_element_by_path(Head(changes).Path, store).ret,
                                           _get_parent_element_by_path(Head(changes).Path, store).ret)),
                      Tail(changes))

\* The apply-diff analysis: the document the backend keeps afterwards, or
\* the failure of the analysis when a change is not valid.
BackendApplyDiff(store, diff_text) ==
    LET changes == BackendParseDiff(diff_text)
    IN  IF \A i \in 1..Len(changes) :
               BackendValid(changes[i], _get_element_by_path(changes[i].Path, store))
        THEN Ret(Canon(BackendApply(store, changes), <<"disk">>))
        ELSE Raise("CalledProcessError")

\* The models the initial analyses produce for the binaries explored.
AnalysedModels ==
    {MkBinary("disk", "a", <<MkFunction("disk", "k1", "x", MkPrimitive("disk", "k1", FALSE, 8))>>,
              <<Str("a"), Str("b")>>),
     MkBinary("disk", "", <<MkFunction("disk", "k1", "x", None), MkFunction("disk", "k2", "", None)>>,
              <<>>)}

EditNames == {"", "lol"}

\* The in-place edits of project.model a script makes, as writes to its
\* objects: a function's CustomName or Prototype, the Name, the
\* ImportedLibraries in the opposite order.
ModelEdits(doc) ==
    {Write(doc.Functions._data[i].oid, "setattr", 0, "CustomName", Str(n)) :
        i \in 1..Len(doc.Functions._data), n \in EditNames}
    \cup {Write(doc.Functions._data[1].oid, "setattr", 0, "Prototype", p) :
             p \in IF Len(doc.Functions._data) = 0 THEN {}
                   ELSE {MkDefined("edit", "k1", FALSE, Reference(TypeRef, None)),
                         MkPrimitive("edit", "k1", FALSE, 4)}}
    \cup {Write(doc.oid, "setattr", 0, "Name", Str("b"))}
    \cup {Write(doc.oid, "setattr", 0, "ImportedLibraries",
                TypedList(<<"edit", "ImportedLibraries">>, "str",
                          [i \in 1..Len(doc.ImportedLibraries._data) |->
                              doc.ImportedLibraries._data[Len(doc.ImportedLibraries._data) + 1 - i]]))}

\* In the project specification the snapshots of the diff engine's caller
\* are not used; saved holds the model as of the last commit or load, the
\* number of edits made and whether the project was opened before.
engine_vars == <<TypeHints, snapshot_old, snapshot_new, change_set>>

\* get_project(resume_dir): Project.__init__ on a resume directory that
\* holds the model of an analysed binary.
ProjectInit ==
    /\ TypeHints = GeneratedTypeHints
    /\ snapshot_old = None
    /\ snapshot_new = None
    /\ change_set = <<>>
    /\ resume_dir \in AnalysedModels
    /\ model = Canon(EmptyBinary, <<"model">>)
    /\ last_saved_model = Canon(EmptyBinary, <<"last_saved_model">>)
    /\ result = [op |-> "get_project"]
    /\ pc = "created"
    /\ saved = [committed |-> Strip(EmptyBinary), edits |-> 0, reopened |-> FALSE]
    /\ resolvers = <<>>
    /\ work_queue = <<>>
    /\ running = {}
    /\ launcher = None

\* project.import_and_analyze(binary): the analyses return the model of the
\* resume directory, _set_model stores it.
ImportAndAnalyze ==
    /\ pc = "created"
    /\ \E loaded \in {load_model_from_string(BackendModelText(resume_dir))} :
          /\ model' = _set_model(loaded.ret).model
          /\ last_saved_model' = _set_model(loaded.ret).last_saved_model
          /\ result' = [op |-> "import_and_analyze", out |-> Ret(None),
                        expected |-> saved.committed, reopened |-> saved.reopened]
          /\ saved' = [saved EXCEPT !.committed = Strip(loaded.ret)]
    /\ pc' = "open"
    /\ UNCHANGED <<engine_vars, resume_dir>>
    /\ UNCHANGED service_vars

\* An in-place edit of project.model: the write reaches every tree that
\* holds the object written.
EditModel ==
    /\ pc \in {"open", "edited", "committed", "reverted"}
    /\ saved.edits < MaxEdits
    /\ \E w \in ModelEdits(model) :
          /\ ~PyEq(ApplyWrite(model, w), model)
          /\ model' = Canon(ApplyWrite(model, w), <<"model">>)
          /\ last_saved_model' = CanonAgainst(ApplyWrite(last_saved_model, w),
                                              Renaming(ApplyWrite(model, w), <<"model">>),
                                              <<"last_saved_model">>)
    /\ result' = [op |-> "edit", out |-> Ret(None)]
    /\ pc' = "edited"
    /\ saved' = [saved EXCEPT !.edits = @ + 1]
    /\ UNCHANGED <<engine_vars, resume_dir>>
    /\ UNCHANGED service_vars

\* commit() without the early return of lines 68-69: the diff is sent to
\* the backend even when it holds no change.
CommitDiff_always_send(diff, applied) ==
    IF IsExc(diff)
    THEN /\ result' = [op |-> "commit", out |-> Raise(diff.exc)]
         /\ UNCHANGED <<last_saved_model, resume_dir, saved>>
    ELSE IF IsExc(applied)
    THEN /\ result' = [op |-> "commit", out |-> applied]
         /\ UNCHANGED <<last_saved_model, resume_dir, saved>>
    ELSE /\ result' = [op |-> "commit", out |-> Ret(None), sent |-> TRUE]
         /\ resume_dir' = applied.ret
         /\ last_saved_model' = Canon(load_model_from_string(BackendModelText(applied.ret)).ret,
                                      <<"last_saved_model">>)
         /\ saved' = [saved EXCEPT !.committed = Strip(model)]

\* The rest of commit() once the diff is known (lines 68-85): nothing for
\* an empty diff; otherwise the backend applies the diff and the model it
\* returns becomes last_saved_model.
CommitDiff(diff, applied) ==
    IF IsExc(diff)
    THEN /\ result' = [op |-> "commit", out |-> Raise(diff.exc)]
         /\ UNCHANGED <<last_saved_model, resume_dir, saved>>
    ELSE IF Len(diff.ret) = 0
    THEN /\ result' = [op |-> "commit", out |-> Ret(None), sent |-> FALSE]
         /\ saved' = [saved EXCEPT !.committed = Strip(model)]
         /\ UNCHANGED <<last_saved_model, resume_dir>>
    ELSE IF IsExc(applied)
    THEN /\ result' = [op |-> "commit", out |-> applied]
         /\ UNCHANGED <<last_saved_model, resume_dir, saved>>
    ELSE /\ result' = [op |-> "commit", out |-> Ret(None), sent |-> TRUE]
         /\ resume_dir' = applied.ret
         /\ last_saved_model' = Canon(load_model_from_string(BackendModelText(applied.ret)).ret,
                                      <<"last_saved_model">>)
         /\ saved' = [saved EXCEPT !.committed = Strip(model)]

\* project.commit()
Commit ==
    /\ pc \in {"open", "edited", "committed", "reverted"}
    /\ \E diff \in {make_diff(last_saved_model, model, TypeHints)} :
          CommitDiff(diff, IF IsExc(diff) THEN diff
                           ELSE BackendApplyDiff(resume_dir, dump_diff(diff.ret)))
    /\ pc' = "committed"
    /\ UNCHANGED <<engine_vars, model>>
    /\ UNCHANGED service_vars

\* project.revert(): self._set_model(deepcopy(self.last_saved_model))
Revert ==
    /\ pc \in {"open", "edited", "committed", "reverted"}
    /\ \E copy \in {deepcopy(last_saved_model, "revert")} :
          /\ model' = _set_model(copy).model
          /\ last_saved_model' = _set_model(copy).last_saved_model
    /\ result' = [op |-> "revert", out |-> Ret(None)]
    /\ pc' = "reverted"
    /\ UNCHANGED <<engine_vars, resume_dir, saved>>
    /\ UNCHANGED service_vars

\* The script drops the project and gets a new one on the same resume
\* directory.
Reopen ==
    /\ pc \in {"open", "edited", "committed", "reverted"}
    /\ model' = Canon(EmptyBinary, <<"model">>)
    /\ last_saved_model' = Canon(EmptyBinary, <<"last_saved_model">>)
    /\ result' = [op |-> "get_project"]
    /\ pc' = "created"
    /\ saved' = [saved EXCEPT !.reopened = TRUE]
    /\ UNCHANGED <<engine_vars, resume_dir>>
    /\ UNCHANGED service_vars

ProjectNext ==
    \/ ImportAndAnalyze
    \/ EditModel
    \/ Commit
    \/ Revert
    \/ Reopen

ProjectSpec == ProjectInit /\ [][ProjectNext]_vars

(***************************************************************************)
(* The GraphQL layer of the daemon (revng.daemon.graphql).  The resolvers  *)
(* are coroutines of one event loop: a resolver runs from one await to the *)
(* next without interleaving.  Every Manager function is handed to the     *)
(* module's executor by run_in_executor and the resolver awaits its        *)
(* future; the worker threads of the executor take the work items in the   *)
(* order they were submitted.                                              *)
(***************************************************************************)
MaxResolvers == 3
MaxRequests == 1

Resolvers == 1..MaxResolvers

\* ThreadPoolExecutor(1): the number of worker threads of the executor.
max_workers == 1

\* The functions a resolver hands to the executor, in order: the Manager
\* method of each, and the lambda of resolve_targets.
ResolverCalls(field) ==
    CASE field = "produce" -> <<"produce_target">>
      [] field = "targets" -> <<"get_targets", "lambda">>
      [] field = "runAnalysis" -> <<"run_analysis">>
      [] field = "setGlobal" -> <<"set_global">>
      [] field = "applyDiff" -> <<"apply_diff">>

Fields == {"produce", "targets", "runAnalysis", "setGlobal", "applyDiff"}

ManagerFunctions == {"produce_target", "get_targets", "run_analysis", "set_global", "apply_diff"}

\* run_in_executor(function): loop.run_in_executor(executor, ...) puts a
\* work item on the executor's queue.
run_in_executor(queue, r, function) == Append(queue, [resolver |-> r, function |-> function])

\* A pool that starts a thread for every work item.
WorkerAvailable_unbounded(busy) == TRUE

\* The executor has a worker thread that is not running a work item.
WorkerAvailable(busy) == Cardinality(busy) < max_workers

IdleResolver == [pc |-> "idle", field |-> "", step |-> 0, served |-> 0]

DaemonInit ==
    /\ TypeHints = GeneratedTypeHints
    /\ snapshot_old = None
    /\ snapshot_new = None
    /\ change_set = <<>>
    /\ result = [op |-> "none"]
    /\ pc = "serving"
    /\ saved = None
    /\ model = None
    /\ last_saved_model = None
    /\ resume_dir = None
    /\ launcher = None
    /\ resolvers = [r \in Resolvers |-> IdleResolver]
    /\ work_queue = <<>>
    /\ running = {}

daemon_frame == <<engine_vars, project_vars, result, pc, saved, launcher>>

\* A request arrives: its resolver runs up to its first await, the call of
\* run_in_executor with the first function.
ResolverStart ==
    /\ \E r \in Resolvers : \E field \in Fields :
          /\ resolvers[r].pc = "idle"
          /\ resolvers[r].served < MaxRequests
          /\ resolvers' = [resolvers EXCEPT ![r] = [@ EXCEPT !.pc = "awaiting", !.field = field,
                                                             !.step = 1]]
          /\ work_queue' = run_in_executor(work_queue, r, ResolverCalls(field)[1])
    /\ UNCHANGED <<running, daemon_frame>>

\* A free worker thread takes the oldest work item and starts running it.
WorkerTake ==
    /\ work_queue # <<>>
    /\ WorkerAvailable(running)
    /\ running' = running \cup {Head(work_queue)}
    /\ work_queue' = Tail(work_queue)
    /\ UNCHANGED <<resolvers, daemon_frame>>

\* The function of a work item returns: its future is done and the
\* awaiting resolver is scheduled again.
WorkerDone ==
    /\ \E item \in running :
          /\ running' = running \ {item}
          /\ resolvers' = [resolvers EXCEPT ![item.resolver].pc = "resumed"]
    /\ UNCHANGED <<work_queue, daemon_frame>>

\* The resolver goes on after its await: to the next run_in_executor, or
\* to its return.
ResolverResume ==
    /\ \E r \in Resolvers :
          /\ resolvers[r].pc = "resumed"
          /\ IF resolvers[r].step < Len(ResolverCalls(resolvers[r].field))
             THEN /\ resolvers' = [resolvers EXCEPT ![r] = [@ EXCEPT !.pc = "awaiting",
                                                                    !.step = @ + 1]]
                  /\ work_queue' = run_in_executor(work_queue, r,
                                       ResolverCalls(resolvers[r].field)[resolvers[r].step + 1])
             ELSE /\ resolvers' = [resolvers EXCEPT ![r] = [@ EXCEPT !.pc = "idle", !.field = "",
                                                                    !.step = 0,
                                                                    !.served = @ + 1]]
                  /\ UNCHANGED work_queue
    /\ UNCHANGED <<running, daemon_frame>>

DaemonNext ==
    \/ ResolverStart
    \/ WorkerTake
    \/ WorkerDone
    \/ ResolverResume

DaemonSpec == DaemonInit /\ [][DaemonNext]_vars

(***************************************************************************)
(* The launcher of the local daemon:                                       *)
(* LocalDaemonProject.start_daemon and _is_server_running                  *)
(* (python/revng/scripting/local_daemon_profile.py).  launcher holds the   *)
(* locals of one call of start_daemon and the position in its body; the    *)
(* daemon process and the HTTP library are the environment, their          *)
(* outcomes are chosen nondeterministically.                               *)
(***************************************************************************)
MaxRetries == 4
default_connection_retries == 10
ConnectionRetries == (0..MaxRetries) \cup {default_connection_retries}

\* What subprocess.Popen(cli_args, ...) can do: start the process, or raise
\* OSError (FileNotFoundError, PermissionError) for the executable.
PopenOutcomes == {"started", "OSError"}

\* What requests.get(url, timeout=5) can do: return a response (of any
\* status code), raise requests.exceptions.ConnectionError (connection
\* refused, ConnectTimeout), or raise requests.exceptions.ReadTimeout: the
\* server accepted the connection and sent nothing for 5 seconds.
\* ReadTimeout derives from Timeout and RequestException, not from
\* ConnectionError.
GetOutcomes == {"response", "ConnectionError", "ReadTimeout"}

\* _is_server_running: True for a response, False for a ConnectionError;
\* every other exception of requests.get propagates.
_is_server_running(answer) ==
    CASE answer = "response" -> Ret(TRUE)
      [] answer = "ConnectionError" -> Ret(FALSE)
      [] OTHER -> Raise(answer)

LauncherInit ==
    /\ TypeHints = GeneratedTypeHints
    /\ snapshot_old = None
    /\ snapshot_new = None
    /\ change_set = <<>>
    /\ result = [op |-> "none"]
    /\ pc = "launching"
    /\ saved = None
    /\ model = None
    /\ last_saved_model = None
    /\ resume_dir = None
    /\ launcher = None
    /\ resolvers = <<>>
    /\ work_queue = <<>>
    /\ running = {}

launcher_frame == <<engine_vars, project_vars, result, pc, saved, resolvers, work_queue, running>>

\* start_daemon(connection_retries) is called (by __init__ with the
\* default, or by the user).
start_daemon ==
    /\ launcher = None
    /\ \E connection_retries \in ConnectionRetries :
          launcher' = [pc |-> "Popen", connection_retries |-> connection_retries,
                       failed_retries |-> 0, probes |-> 0, succeeded |-> FALSE,
                       outcome |-> None]
    /\ UNCHANGED launcher_frame

\* self.daemon_process = subprocess.Popen(...); failed_retries = 0
Popen ==
    /\ launcher # None
    /\ launcher.pc = "Popen"
    /\ \E o \in PopenOutcomes :
          launcher' = IF o = "started"
                      THEN [launcher EXCEPT !.pc = "while", !.failed_retries = 0]
                      ELSE [launcher EXCEPT !.pc = "done", !.outcome = Raise(o)]
    /\ UNCHANGED launcher_frame

\* while failed_retries <= connection_retries: ... ; raise RuntimeError
WhileFailedRetries ==
    /\ launcher # None
    /\ launcher.pc = "while"
    /\ launcher' = IF launcher.failed_retries <= launcher.connection_retries
                   THEN [launcher EXCEPT !.pc = "_is_server_running"]
                   ELSE [launcher EXCEPT !.pc = "done", !.outcome = Raise("RuntimeError")]
    /\ UNCHANGED launcher_frame

\* if self._is_server_running(): return; failed_retries += 1
ProbeStatus ==
    /\ launcher # None
    /\ launcher.pc = "_is_server_running"
    /\ \E answer \in GetOutcomes : \E r \in {_is_server_running(answer)} :
          launcher' =
             IF IsExc(r)
             THEN [launcher EXCEPT !.pc = "done", !.probes = @ + 1, !.outcome = r]
             ELSE IF r.ret
                  THEN [launcher EXCEPT !.pc = "done", !.probes = @ + 1,
                                        !.succeeded = TRUE, !.outcome = Ret(None)]
                  ELSE [launcher EXCEPT !.pc = "sleep", !.probes = @ + 1,
                                        !.failed_retries = @ + 1]
    /\ UNCHANGED launcher_frame

\* sleep(1)
sleep ==
    /\ launcher # None
    /\ launcher.pc = "sleep"
    /\ launcher' = [launcher EXCEPT !.pc = "while"]
    /\ UNCHANGED launcher_frame

\* The caller goes on after the return or the exception of start_daemon
\* and observes its outcome.
StartDaemonReturns ==
    /\ launcher # None
    /\ launcher.pc = "done"
    /\ result' = [op |-> "start_daemon", connection_retries |-> launcher.connection_retries,
                  probes |-> launcher.probes, out |-> launcher.outcome]
    /\ launcher' = None
    /\ UNCHANGED <<engine_vars, project_vars, pc, saved, resolvers, work_queue, running>>

LauncherStep == Popen \/ WhileFailedRetries \/ ProbeStatus \/ sleep

LauncherNext ==
    \/ start_daemon
    \/ Popen
    \/ WhileFailedRetries
    \/ ProbeStatus
    \/ sleep
    \/ StartDaemonReturns

\* Popen, requests.get with its timeout, and sleep(1) each return or
\* raise: a call of start_daemon that can take a step takes it.
LauncherSpec == LauncherInit /\ [][LauncherNext]_vars /\ WF_vars(LauncherStep)

(***************************************************************************)
(* The claims of the specification, as properties of Spec.                 *)
(***************************************************************************)
ApplySucceeded == ~IsExc(result.out) /\ result.out.ret[1]

\* C1: patch correctness.  Whenever apply_diff is called on old with the
\* change set make_diff(old, new) produced, it returns (True, r) with
\* r == new.
C1_PatchCorrectness ==
    (pc = "applied" /\ result.origin = "diffed") =>
        (ApplySucceeded /\ PyEq(result.out.ret[2], saved.new))

\* A change is invalid against root when validate_diff does not accept it
\* on its own.
InvalidAlone(root, change) ==
    \E v \in {validate_diff(root, <<change>>, GeneratedTypeHints)} : IsExc(v) \/ ~v.ret

\* C2: atomicity.  Whenever at least one change of the set is invalid
\* against root, apply_diff returns (False, None) and root is unchanged.
C2_Atomicity ==
    (pc = "applied" /\ \E i \in 1..Len(saved.changes) : InvalidAlone(saved.old, saved.changes[i])) =>
        (result.out = Ret(<<FALSE, None>>) /\ snapshot_old = saved.old)

\* C3: the diff of a document with itself is empty.  Whenever make_diff is
\* called on two equal documents, it returns an empty change list.
C3_SelfDiffEmpty ==
    (result.op = "make_diff" /\ PyEq(saved.old, saved.new)) => result.out = Ret(<<>>)

DistinctKeys(doc) ==
    \A i, j \in 1..Len(doc.Functions._data) :
        i # j => key(doc.Functions._data[i]) # key(doc.Functions._data[j])

\* C4: keyed-collection uniqueness.  Whenever apply_diff succeeds on a
\* root whose keyed collection has pairwise distinct keys, the keyed
\* collection of the returned document has pairwise distinct keys.
C4_KeyedUniqueness ==
    (pc = "applied" /\ ApplySucceeded /\ DistinctKeys(saved.old)) =>
        DistinctKeys(result.out.ret[2])

\* C5: apply_diff never mutates its input.  After apply_diff, and after
\* any later in-place edit of the document it returned, root equals its
\* value before the call, and the returned document shares no object
\* with root.
C5_ApplyFrame ==
    (pc \in {"applied", "edited"}) =>
        /\ PyEq(snapshot_old, saved.old)
        /\ ApplySucceeded => (Oids(result.out.ret[2]) \cap Oids(snapshot_old) = {})

\* C6: make_diff and validate_diff leave their inputs unchanged.  After
\* make_diff both snapshots are what they were before the call, and after
\* validate_diff so is root.
C6_DiffValidateFrame ==
    /\ (result.op = "make_diff") => (snapshot_old = saved.old /\ snapshot_new = saved.new)
    /\ (result.op = "validate_diff") => (snapshot_old = saved.old)

\* make_diff has run the consuming match on two non-empty plain sequences
\* and reported a change.
C6_Witness ==
    /\ result.op = "make_diff"
    /\ pc = "diffed"
    /\ Len(saved.old.ImportedLibraries._data) = 2
    /\ Len(saved.new.ImportedLibraries._data) > 0
    /\ change_set # <<>>

\* Equality of two documents up to the order of the keyed collection.
SameDocument(a, b) ==
    IF a.t # "Binary" \/ b.t # "Binary" THEN PyEq(a, b)
    ELSE /\ PyEq(a.Name, b.Name)
         /\ PyEq(a.ImportedLibraries, b.ImportedLibraries)
         /\ Len(a.Functions._data) = Len(b.Functions._data)
         /\ \A e \in Range(Strip(a.Functions)._data) :
               Cardinality({i \in 1..Len(a.Functions._data) : Strip(a.Functions._data[i]) = e})
               = Cardinality({i \in 1..Len(b.Functions._data) : Strip(b.Functions._data[i]) = e})

SameOutcome(a, b) ==
    IF IsExc(a) \/ IsExc(b) THEN a = b
    ELSE a.ret[1] = b.ret[1] /\ SameDocument(a.ret[2], b.ret[2])

\* C7: the changes of a set commute.  Whenever a set validate_diff accepts
\* is applied in two orders, both applications yield the same document.
C7_Commute ==
    (pc = "reapplied") => SameOutcome(result.first, result.out)

\* C8: an invalid patch is a value, never an exception.  validate_diff
\* returns a boolean and apply_diff returns a pair, whatever the set.
C8_NoException ==
    /\ (pc = "validated") => result.out \in {Ret(TRUE), Ret(FALSE)}
    /\ (pc = "applied") => ~IsExc(result.out)

\* C9: round trip.  Parsing the rendered text of a document yields a
\* document equal to it.
C9_RoundTrip ==
    (pc = "loaded") => (~IsExc(result.out) /\ PyEq(result.out.ret, snapshot_old))

\* The declared fields of the nodes of a document, each with its value and
\* with whether the mapping that is the text of its node has it.
RECURSIVE FieldsWithText(_, _)
FieldsWithText(v, node) ==
    IF v.t = "TypedList" /\ node.y = "seq" /\ Len(v._data) = Len(node.items)
    THEN UNION {FieldsWithText(v._data[i], node.items[i]) : i \in 1..Len(v._data)}
    ELSE IF IsNode(v) /\ node.y = "map"
    THEN {[cls |-> v.t, name |-> f, value |-> v[f], emitted |-> f \in DOMAIN node.m] :
             f \in Range(fields(v.t))}
         \cup UNION {FieldsWithText(v[f], node.m[f]) : f \in Range(fields(v.t)) \cap DOMAIN node.m}
    ELSE {}

HoldsDefault(e) == IsOptional(e.cls, e.name) /\ FieldEq(e.value, default_value(e.cls, e.name))

\* C10: default omission.  The rendering of a node never has a field
\* whose value equals the field's declared default, and a node parsed from
\* a mapping that lacks a field with a declared default holds that default
\* in the field.  The fields that declare a default are the optional ones.
C10_DefaultOmission ==
    /\ (pc = "dumped") =>
           \A e \in FieldsWithText(snapshot_old, result.out.ret) : HoldsDefault(e) => ~e.emitted
    /\ (pc = "loaded" /\ ~IsExc(result.out)) =>
           \A e \in FieldsWithText(result.out.ret, result.text) :
               (IsOptional(e.cls, e.name) /\ ~e.emitted) => HoldsDefault(e)

\* A document was rendered with one optional field omitted and another
\* emitted, and parsed back.
C10_Witness ==
    /\ pc = "loaded"
    /\ ~IsExc(result.out)
    /\ \E e \in FieldsWithText(result.out.ret, result.text) : IsOptional(e.cls, e.name) /\ ~e.emitted
    /\ \E e \in FieldsWithText(snapshot_old, result.text) :
          IsOptional(e.cls, e.name) /\ e.emitted /\ e.name \in {"Name", "Size", "IsConst"}

\* The class whose fields a mapping for cls is bound to: the variant its
\* Kind names for the upcastable Type, cls itself otherwise.
BoundClass(cls, kwargs) ==
    IF /\ cls = "Type"
       /\ "Kind" \in DOMAIN kwargs.m
       /\ kwargs.m["Kind"].t = "str"
       /\ kwargs.m["Kind"].s \in DOMAIN _children(cls)
    THEN _children(cls)[kwargs.m["Kind"].s]
    ELSE cls

UndeclaredKey(cls, kwargs) ==
    \E k \in Range(kwargs.keys) : k \notin Range(fields(BoundClass(cls, kwargs)))

MissingRequired(cls, kwargs) ==
    \E f \in Range(fields(BoundClass(cls, kwargs))) :
        ~IsOptional(BoundClass(cls, kwargs), f) /\ f \notin Range(kwargs.keys)

\* C13: strict field binding.  Constructing a node from a mapping that has
\* an undeclared key or lacks a non-optional field raises an error and
\* returns no node; a construction that returns a node had every key
\* declared and every non-optional field supplied.
C13_StrictBinding ==
    (pc = "constructed") =>
        /\ (UndeclaredKey(result.cls, result.kwargs) \/ MissingRequired(result.cls, result.kwargs))
              => IsExc(result.out)
        /\ ~IsExc(result.out)
              => /\ ~UndeclaredKey(result.cls, result.kwargs)
                 /\ ~MissingRequired(result.cls, result.kwargs)
                 /\ result.out.ret.t = BoundClass(result.cls, result.kwargs)

C13_Witness ==
    /\ pc = "constructed"
    /\ result.cls = "Function"
    /\ UndeclaredKey(result.cls, result.kwargs)
    /\ IsExc(result.out)

\* The node of doc whose identity is oid.
NodeAt(doc, oid) == CHOOSE n \in NodesOf(doc) : n.oid = oid

DeclaredAttribute(cls, name) == name \in Range(fields(cls))

\* C14: a node never holds an undeclared attribute.  An assignment to a
\* name that is neither a declared field of the node's class nor private
\* raises AttributeError and leaves the document as it was; an assignment
\* to a declared field or to a private name returns and the node holds the
\* value; no node of the document has an attribute other than its declared
\* fields and the private names.
C14_DeclaredAttributesOnly ==
    (pc = "assigned") =>
        LET before == NodeAt(saved.old, result.oid)
            after == NodeAt(snapshot_old, result.oid)
            accepted == DeclaredAttribute(before.t, result.name) \/ result.name \in PrivateNames
        IN  /\ ~accepted => (result.out = Raise("AttributeError") /\ snapshot_old = saved.old)
            /\ accepted => /\ ~IsExc(result.out)
                           /\ result.name \in DOMAIN after
                           /\ after[result.name] = result.value
            /\ \A n \in NodesOf(snapshot_old) :
                   DOMAIN n \subseteq {"t", "oid"} \cup Range(fields(n.t)) \cup PrivateNames

\* A second assignment, to an undeclared name, was rejected on a node that
\* holds the private attribute from the first.
C14_Witness ==
    /\ pc = "assigned"
    /\ result.count = 2
    /\ result.name = "Bogus"
    /\ IsExc(result.out)
    /\ "_project" \in DOMAIN NodeAt(snapshot_old, result.oid)

\* The components name a location of obj: every field component is a
\* declared field of the node it is applied to, and every key component is
\* the key of an element of the collection it is applied to.
RECURSIVE Designates(_, _)
Designates(components, obj) ==
    IF components = <<>> THEN TRUE
    ELSE IF obj.t = "TypedList"
    THEN \E i \in 1..Len(obj._data) :
            /\ IsNode(obj._data[i])
            /\ "Entry" \in DOMAIN obj._data[i]
            /\ obj._data[i].Entry = Str(components[1])
            /\ Designates(Tail(components), obj._data[i])
    ELSE /\ IsNode(obj)
         /\ components[1] \in Range(fields(obj.t))
         /\ Designates(Tail(components), obj[components[1]])

\* C15: a path that designates no location raises the resolver's error.
\* Whenever get_element_by_path is called with a path that has an unknown
\* field name or a key that no element of the addressed collection has,
\* the empty collection included, it raises RuntimeError and returns no
\* value.
C15_UnresolvedPathRaises ==
    (pc = "resolved" /\ ~Designates(Tail(result.path), snapshot_old)) =>
        result.out = Raise("RuntimeError")

AddOnly(change) == Truthy(change.Add) /\ ~Truthy(change.Remove)

RemoveOnly(change) == Truthy(change.Remove) /\ ~Truthy(change.Add)

\* The path addresses a scalar or struct field of root: it designates a
\* location and its last component is a field that is not a sequence.
AddressesField(path, root) ==
    /\ Designates(Tail(path), root)
    /\ path[Len(path)] \in FieldNames
    /\ FieldType("", path[Len(path)]).origin # "list"

\* The value root holds at a path that designates a location.
ValueAt(path, root) == _get_element_by_path(path, root).ret

\* The declared default of the field a path ends in.
DefaultAt(path) == default_value("", path[Len(path)])

\* C16: an add-only change on a scalar/struct field is valid if and only if
\* the field is empty.  Whenever validate_diff is called with a single
\* add-only change that addresses a field of root, it returns True exactly
\* when root holds the field's default value there.
C16_AddOnlyNeedsEmptyField ==
    (/\ pc = "validated"
     /\ Len(saved.changes) = 1
     /\ AddOnly(saved.changes[1])
     /\ AddressesField(saved.changes[1].Path, saved.old)) =>
        /\ result.out \in {Ret(TRUE), Ret(FALSE)}
        /\ result.out.ret <=> FieldEq(ValueAt(saved.changes[1].Path, saved.old),
                                      DefaultAt(saved.changes[1].Path))

\* The collection holds an element equal to value.
Contains(collection, value) == \E i \in 1..Len(collection._data) : PyEq(collection._data[i], value)

\* The verdict the rule gives on a change against a keyed collection.
KeyedVerdict(change, collection) ==
    /\ Truthy(change.Remove) => Contains(collection, change.Remove)
    /\ Truthy(change.Add) => ~Contains(collection, change.Add)

\* C17: validation of a change on a keyed collection.  Whenever
\* validate_diff is called with changes that all address the keyed
\* collection Functions, it returns True exactly when every removed value
\* equals an element of root's collection and no added value does.
C17_KeyedValidation ==
    (/\ pc = "validated"
     /\ saved.changes # <<>>
     /\ \A i \in 1..Len(saved.changes) : saved.changes[i].Path = <<"", "Functions">>) =>
        /\ result.out \in {Ret(TRUE), Ret(FALSE)}
        /\ result.out.ret <=> \A i \in 1..Len(saved.changes) :
                                  KeyedVerdict(saved.changes[i], saved.old.Functions)

\* A removal of an element the collection holds was accepted.
C17_Witness ==
    /\ pc = "validated"
    /\ Len(saved.changes) = 1
    /\ saved.changes[1].Path = <<"", "Functions">>
    /\ RemoveOnly(saved.changes[1])
    /\ Contains(saved.old.Functions, saved.changes[1].Remove)
    /\ result.out = Ret(TRUE)

\* C18: a remove-only change clears a scalar/struct field to its declared
\* default.  Whenever apply_diff succeeds on a single remove-only change
\* that addresses a field of root, the field of the returned document
\* equals the field's declared default, and the returned document equals
\* root in every other field.
C18_RemoveOnlyClearsToDefault ==
    (/\ pc = "applied"
     /\ result.op = "apply_diff"
     /\ Len(saved.changes) = 1
     /\ RemoveOnly(saved.changes[1])
     /\ AddressesField(saved.changes[1].Path, saved.old)
     /\ Len(saved.changes[1].Path) = 2
     /\ ApplySucceeded) =>
        LET name == saved.changes[1].Path[2]
            returned == result.out.ret[2]
        IN  /\ FieldEq(returned[name], DefaultAt(saved.changes[1].Path))
            /\ PyEq([returned EXCEPT ![name] = saved.old[name]], saved.old)

IsPrefix(prefix, path) == Len(prefix) <= Len(path) /\ SubSeq(path, 1, Len(prefix)) = prefix

\* The keys whose element holds a Prototype in old and in new, of
\* different variants.
VariantChanged(old, new) ==
    {k \in Keys :
        \E i \in 1..Len(old.Functions._data) : \E j \in 1..Len(new.Functions._data) :
            /\ old.Functions._data[i].Entry = Str(k)
            /\ new.Functions._data[j].Entry = Str(k)
            /\ IsNode(old.Functions._data[i].Prototype)
            /\ IsNode(new.Functions._data[j].Prototype)
            /\ old.Functions._data[i].Prototype.t # new.Functions._data[j].Prototype.t}

PrototypeOf(doc, k) ==
    doc.Functions._data[CHOOSE i \in 1..Len(doc.Functions._data) :
                            doc.Functions._data[i].Entry = Str(k)].Prototype

\* C19: a node whose variant differs between old and new is reported as
\* fully replaced.  Whenever make_diff returns for two documents that hold
\* different variants at the same Prototype, the change list has a change
\* at the Prototype's path carrying the old node as removed and the new
\* node as added, has no change below that path, and is not empty.
C19_VariantChangeIsReplacement ==
    (pc = "diffed") =>
        \A k \in VariantChanged(saved.old, saved.new) :
            LET path == <<"", "Functions", k, "Prototype">>
            IN  /\ \E i \in 1..Len(change_set) :
                      /\ change_set[i].Path = path
                      /\ PyEq(change_set[i].Remove, PrototypeOf(saved.old, k))
                      /\ PyEq(change_set[i].Add, PrototypeOf(saved.new, k))
                /\ \A i \in 1..Len(change_set) :
                      IsPrefix(path, change_set[i].Path) => change_set[i].Path = path

\* The element of the keyed collection whose Entry is k, and the keys held.
ElementOf(collection, k) ==
    collection._data[CHOOSE i \in 1..Len(collection._data) : collection._data[i].Entry = Str(k)]

KeysOf(collection) == {k \in Keys : \E i \in 1..Len(collection._data) : collection._data[i].Entry = Str(k)}

\* The positions of the change list that satisfy a condition on the change.
ChangesWhere(changes, Cond(_)) == {i \in 1..Len(changes) : Cond(changes[i])}

\* C20: keyed collections are diffed by key, not by position.  Whenever
\* make_diff returns, for the keyed collection Functions: an element whose
\* key is only in old yields exactly one remove-only change at /Functions
\* carrying the element; an element whose key is only in new yields exactly
\* one add-only change at /Functions carrying it; there is no other change
\* at /Functions; an element whose key is in both yields changes only under
\* /Functions/<key>, none if the two elements are equal; and no change
\* lies under the key of an element that is only on one side.
C20_KeyedDiffByKey ==
    (pc = "diffed") =>
        LET old == saved.old.Functions
            new == saved.new.Functions
            here == <<"", "Functions">>
        IN  /\ \A k \in KeysOf(old) \ KeysOf(new) :
                   Cardinality(ChangesWhere(change_set,
                       LAMBDA c : /\ c.Path = here
                                  /\ c.Add = None
                                  /\ PyEq(c.Remove, ElementOf(old, k)))) = 1
            /\ \A k \in KeysOf(new) \ KeysOf(old) :
                   Cardinality(ChangesWhere(change_set,
                       LAMBDA c : /\ c.Path = here
                                  /\ c.Remove = None
                                  /\ PyEq(c.Add, ElementOf(new, k)))) = 1
            /\ Cardinality(ChangesWhere(change_set, LAMBDA c : c.Path = here))
                   = Cardinality(KeysOf(old) \ KeysOf(new)) + Cardinality(KeysOf(new) \ KeysOf(old))
            /\ \A i \in 1..Len(change_set) :
                   (IsPrefix(here, change_set[i].Path) /\ change_set[i].Path # here) =>
                       /\ change_set[i].Path[3] \in KeysOf(old) \cap KeysOf(new)
                       /\ ~PyEq(ElementOf(old, change_set[i].Path[3]),
                                ElementOf(new, change_set[i].Path[3]))
            /\ \A k \in KeysOf(old) \cap KeysOf(new) :
                   ElementOf(old, k).CustomName # ElementOf(new, k).CustomName =>
                       Cardinality(ChangesWhere(change_set,
                           LAMBDA c : c.Path = <<"", "Functions", k, "CustomName">>)) = 1

\* Two collections of two elements in opposite orders, one element changed:
\* the only change lies under that element's key.
C20_Witness ==
    /\ pc = "diffed"
    /\ Len(saved.old.Functions._data) = 2
    /\ Len(saved.new.Functions._data) = 2
    /\ saved.old.Functions._data[1].Entry = saved.new.Functions._data[2].Entry
    /\ saved.old.Functions._data[2].Entry = saved.new.Functions._data[1].Entry
    /\ saved.old.Name = saved.new.Name
    /\ Len(change_set) = 1
    /\ Len(change_set[1].Path) = 4

\* The number of changes of a list that satisfy a test.
CountChanges(changes, Test(_)) == Cardinality({i \in 1..Len(changes) : Test(changes[i])})

\* The number of positions of a plain sequence holding the value.
CountIn(collection, value) ==
    Cardinality({i \in 1..Len(collection._data) : PyEq(collection._data[i], value)})

Monus(a, b) == IF a > b THEN a - b ELSE 0

\* C21: plain sequences are diffed as a multiset difference.  Whenever
\* make_diff has returned for two documents that differ at most in
\* ImportedLibraries, every change lies at /ImportedLibraries and carries
\* one value only; for each value v the changes removing v number
\* max(0, count_old(v) - count_new(v)) and those adding v number
\* max(0, count_new(v) - count_old(v)), so two permutations of one
\* sequence give no change.
C21_PlainSequenceMultiset ==
    (pc = "diffed" /\ PyEq(saved.old.Functions, saved.new.Functions)
                   /\ PyEq(saved.old.Name, saved.new.Name)) =>
        /\ \A i \in 1..Len(change_set) :
              /\ change_set[i].Path = <<"", "ImportedLibraries">>
              /\ (change_set[i].Add = None) # (change_set[i].Remove = None)
        /\ \A v \in {Str(l) : l \in Libraries} :
              /\ CountChanges(change_set, LAMBDA c : c.Add = None /\ c.Remove = v)
                     = Monus(CountIn(saved.old.ImportedLibraries, v),
                             CountIn(saved.new.ImportedLibraries, v))
              /\ CountChanges(change_set, LAMBDA c : c.Remove = None /\ c.Add = v)
                     = Monus(CountIn(saved.new.ImportedLibraries, v),
                             CountIn(saved.old.ImportedLibraries, v))

\* A sequence with a repeated value against one occurrence of it in the
\* other order of a second value: one removal, nothing added.
C21_Witness ==
    /\ pc = "diffed"
    /\ Len(saved.old.ImportedLibraries._data) = 2
    /\ saved.old.ImportedLibraries._data[1] = saved.old.ImportedLibraries._data[2]
    /\ Len(saved.new.ImportedLibraries._data) = 1
    /\ saved.new.ImportedLibraries._data[1] = saved.old.ImportedLibraries._data[1]
    /\ Len(change_set) = 1
    /\ change_set[1].Add = None

\* Two different values in opposite orders: no change.
C21_WitnessPermutation ==
    /\ pc = "diffed"
    /\ Len(saved.old.ImportedLibraries._data) = 2
    /\ Len(saved.new.ImportedLibraries._data) = 2
    /\ saved.old.ImportedLibraries._data[1] = saved.new.ImportedLibraries._data[2]
    /\ saved.old.ImportedLibraries._data[2] = saved.new.ImportedLibraries._data[1]
    /\ saved.old.ImportedLibraries._data[1] # saved.old.ImportedLibraries._data[2]
    /\ change_set = <<>>

\* The scalar-like fields two documents hold at the same place: Name, the
\* CustomName of the elements with a key on both sides, and the fields of
\* their prototypes when both are of one variant.  components holds the
\* last path components that name the field: the field name and, below a
\* polymorphic node, the name qualified by the variant.
ScalarFieldsOf(old, new) ==
    {[node |-> <<"">>, components |-> {"Name"}, cls |-> "Binary", name |-> "Name",
      old |-> old.Name, new |-> new.Name]}
    \cup {[node |-> <<"", "Functions", k>>, components |-> {"CustomName"}, cls |-> "Function",
           name |-> "CustomName",
           old |-> ElementOf(old.Functions, k).CustomName,
           new |-> ElementOf(new.Functions, k).CustomName] :
             k \in KeysOf(old.Functions) \cap KeysOf(new.Functions)}
    \cup UNION {{[node |-> <<"", "Functions", k, "Prototype">>,
                  components |-> {f, PrototypeOf(old, k).t \o "::" \o f},
                  cls |-> PrototypeOf(old, k).t, name |-> f,
                  old |-> PrototypeOf(old, k)[f], new |-> PrototypeOf(new, k)[f]] :
                    f \in Range(fields(PrototypeOf(old, k).t))} :
                 k \in {j \in KeysOf(old.Functions) \cap KeysOf(new.Functions) :
                           /\ IsNode(PrototypeOf(old, j))
                           /\ PrototypeOf(old, j).t = PrototypeOf(new, j).t}}

\* An empty field: None or the declared default of the field.
IsEmpty(cls, name, value) == value = None \/ FieldEq(value, default_value(cls, name))

\* The changes of the list that address the field.
ChangesAt(changes, field) ==
    ChangesWhere(changes, LAMBDA c : \E last \in field.components : c.Path = Append(field.node, last))

\* C22: the shape of a scalar-field change.  Whenever make_diff has
\* returned, for every scalar-like field held by both documents at the
\* same place: no change addresses the field when old equals new; exactly
\* one does otherwise, and it is add-only carrying new when old is empty,
\* remove-only carrying old when new is empty, and carries new as added
\* and old as removed when both are non-empty.
C22_ScalarChangeShape ==
    (pc = "diffed") =>
        \A field \in ScalarFieldsOf(saved.old, saved.new) :
            \E at \in {ChangesAt(change_set, field)} :
                IF PyEq(field.old, field.new) THEN at = {}
                ELSE /\ Cardinality(at) = 1
                     /\ \A i \in at :
                           /\ change_set[i].Add =
                                 IF IsEmpty(field.cls, field.name, field.new) THEN None ELSE field.new
                           /\ change_set[i].Remove =
                                 IF IsEmpty(field.cls, field.name, field.old) THEN None ELSE field.old

\* Name goes from empty to a value while an element is added to Functions:
\* two add-only changes.
C22_Witness ==
    /\ pc = "diffed"
    /\ saved.old.Name = Str("") /\ saved.new.Name # Str("")
    /\ Len(saved.old.Functions._data) = 0 /\ Len(saved.new.Functions._data) = 1
    /\ Len(change_set) = 2
    /\ \A i \in 1..2 : change_set[i].Add # None /\ change_set[i].Remove = None

\* The changes that address a field of a prototype: the path is
\* /Functions/<key>/Prototype/<component>.
BelowPrototype(change) ==
    /\ Len(change.Path) = 5
    /\ change.Path[2] = "Functions"
    /\ change.Path[4] = "Prototype"

\* The field a last path component names, qualified or not.
FieldOf(component) == IF HasSep(component) THEN SplitSep(component).field ELSE component

\* The fields the base type of the prototypes declares.
BaseFields == Range(fields("Type"))

\* C23: the variant prefix of change paths.  Whenever make_diff has
\* returned, in every change that addresses a field of a prototype the
\* last path component is qualified by the variant name exactly when the
\* field is declared by the variant and not by the base type, whether the
\* change adds, removes or replaces.
C23_VariantPrefix ==
    (pc = "diffed") =>
        \A i \in 1..Len(change_set) :
            BelowPrototype(change_set[i]) =>
                LET last == change_set[i].Path[5]
                IN  HasSep(last) <=> (FieldOf(last) \notin BaseFields)

\* C24: no change has both Add and Remove absent.  Every change make_diff
\* returns holds an added or a removed value, and every entry of a
\* rendered change set has an Add or a Remove key, whatever the value
\* added or removed.
C24_NeverBothAbsent ==
    /\ (pc = "diffed") =>
          \A i \in 1..Len(change_set) : change_set[i].Add # None \/ change_set[i].Remove # None
    /\ (pc = "rendered") =>
          \A i \in 1..Len(result.out.ret) :
              "Add" \in DOMAIN result.out.ret[i] \/ "Remove" \in DOMAIN result.out.ret[i]

\* The changes make_diff returns, taken alone.
C24_EmittedNeverBothAbsent ==
    (pc = "diffed") =>
        \A i \in 1..Len(change_set) : change_set[i].Add # None \/ change_set[i].Remove # None

\* A step of commit() taken when make_diff(last_saved_model, model) holds
\* no change.
EmptyCommitStep ==
    /\ pc \in {"open", "edited", "committed", "reverted"}
    /\ pc' = "committed"
    /\ result'.op = "commit"
    /\ make_diff(last_saved_model, model, TypeHints) = [ret |-> <<>>, writes |-> <<>>]

NoRequestNoChange ==
    /\ ~IsExc(result'.out)
    /\ ~result'.sent
    /\ UNCHANGED <<model, last_saved_model, resume_dir>>

C26_ValidatedSetApplies ==
    (pc = "applied" /\ result.valid) =>
        /\ ~IsExc(result.out)
        /\ result.out.ret[1]
        /\ \A i \in 1..Len(saved.old.Functions._data) :
              key(saved.old.Functions._data[i]) \notin KeysOf(result.out.ret[2].Functions) =>
                  \E j \in 1..Len(saved.changes) :
                      /\ saved.changes[j].Path = <<"", "Functions">>
                      /\ PyEq(saved.changes[j].Remove, saved.old.Functions._data[i])

\* The same property, of the removals alone: when apply_diff returned a
\* document.
C26_OnlyRemovesNamed ==
    (pc = "applied" /\ result.valid /\ ~IsExc(result.out)) =>
        \A i \in 1..Len(saved.old.Functions._data) :
            key(saved.old.Functions._data[i]) \notin KeysOf(result.out.ret[2].Functions) =>
                \E j \in 1..Len(saved.changes) :
                    /\ saved.changes[j].Path = <<"", "Functions">>
                    /\ PyEq(saved.changes[j].Remove, saved.old.Functions._data[i])

\* C27: the working model and the saved model of a project share no
\* node.  Under ProjectSpec the two trees have no object in common in any
\* state, and every in-place edit of project.model leaves
\* project.last_saved_model as it was.
C27_NoSharedNodes ==
    /\ [](Oids(model) \cap Oids(last_saved_model) = {})
    /\ [][(pc' = "edited") => (last_saved_model' = last_saved_model)]_vars

\* An edit made after a revert and a commit: the working model differs
\* from the saved one.
C27_Witness ==
    /\ pc = "edited"
    /\ saved.edits = MaxEdits
    /\ ~PyEq(model, last_saved_model)
    /\ ~PyEq(saved.committed, EmptyBinary)

\* The declared element class of a list of the document, and its
\* instances.
DeclaredBase(field) == IF field = "Functions" THEN "Function" ELSE "str"

InstanceOfBase(value, field) == value.t = DeclaredBase(field)

\* C28: the element-type invariant of TypedList.  After every sequence of
\* __setitem__, insert, append, extend and __delitem__ calls on the lists
\* of a document, every element of each list is an instance of the list's
\* declared base class; a call of __setitem__, insert or append with an
\* object of another type raises and leaves the list as it was.
C28_TypedListElements ==
    (pc = "mutated") =>
        /\ \A field \in ListFields :
              \A i \in 1..Len(snapshot_old[field]._data) :
                  InstanceOfBase(snapshot_old[field]._data[i], field)
        /\ (result.method \in {"__setitem__", "insert", "append"}
               /\ ~InstanceOfBase(result.obj, result.field)) =>
              /\ IsExc(result.out)
              /\ snapshot_old = saved.old

\* A second call that is refused, on a list the first call filled.
C28_Witness ==
    /\ pc = "mutated"
    /\ result.count = MaxListCalls
    /\ result.method = "__setitem__"
    /\ ~InstanceOfBase(result.obj, result.field)
    /\ IsExc(result.out)
    /\ Len(snapshot_old[result.field]._data) = 3

\* The Manager functions some thread is executing.
ExecutingManagerCalls == {item \in running : item.function \in ManagerFunctions}

\* C29: the Manager operations of the GraphQL layer are serialized.  Under
\* DaemonSpec, in every interleaving of the resolvers at most one Manager
\* function is executing in any state.
C29_ManagerCallsSerialized == Cardinality(ExecutingManagerCalls) <= 1

\* One Manager function is executing while the calls of two other
\* resolvers wait in the executor's queue.
C29_Witness ==
    /\ Cardinality(ExecutingManagerCalls) = 1
    /\ Len(work_queue) = 2
    /\ \A i \in 1..2 : work_queue[i].function \in ManagerFunctions
    /\ \A r \in Resolvers : resolvers[r].pc = "awaiting"

StartDaemonDone == launcher # None /\ launcher.pc = "done"

\* C30: start_daemon always terminates: it returns as soon as one status
\* probe succeeds, and if no probe ever succeeds it raises RuntimeError
\* after exactly connection_retries + 1 probes.  Under LauncherSpec: every
\* call of start_daemon reaches its end; once a probe has succeeded the
\* call is at its end and returns, no probe follows; and a call that ends
\* with no successful probe ends with RuntimeError and has made
\* connection_retries + 1 probes.
C30_StartDaemonOutcome ==
    /\ [](launcher # None => <>StartDaemonDone)
    /\ [](launcher # None /\ launcher.succeeded
            => StartDaemonDone /\ launcher.outcome = Ret(None))
    /\ [](StartDaemonDone /\ ~launcher.succeeded
            => /\ launcher.outcome = Raise("RuntimeError")
               /\ launcher.probes = launcher.connection_retries + 1)

\* The call that ends with neither: the daemon accepts the connection of a
\* probe and does not answer within the timeout.
C30_ReadTimeoutEscapes ==
    /\ StartDaemonDone
    /\ launcher.outcome = Raise("ReadTimeout")
    /\ launcher.probes <= launcher.connection_retries

\* What does hold of start_daemon: every call ends, a call returns exactly
\* when its last probe succeeded, and RuntimeError is raised only after
\* connection_retries + 1 failed probes.
C30_Terminates == (launcher # None) ~> StartDaemonDone

C30_RuntimeErrorAfterAllProbes ==
    StartDaemonDone =>
       /\ (launcher.outcome = Ret(None)) <=> launcher.succeeded
       /\ launcher.succeeded => launcher.probes = launcher.failed_retries + 1
       /\ (launcher.outcome = Raise("RuntimeError"))
            => /\ launcher.probes = launcher.connection_retries + 1
               /\ launcher.failed_retries = launcher.connection_retries + 1

\* C11: revert restores the last committed state.  Under ProjectSpec,
\* whenever revert() has returned, project.model equals the model as it
\* was when commit() last returned, or as it was loaded if no commit
\* followed the load.
C11_RevertRestoresCommitted ==
    (pc = "reverted") => PyEq(model, saved.committed)

\* C12: committed edits persist.  Under ProjectSpec, whenever a project is
\* reopened on the same resume directory, the model it loads equals the
\* model as it was when commit() last returned, or as it was last loaded if
\* no commit followed.
C12_CommittedEditsPersist ==
    (pc = "open" /\ result.op = "import_and_analyze" /\ result.reopened) =>
        PyEq(model, result.expected)

====
